---- MODULE Spec2Model ----
(***************************************************************************)
(* A model of the table-extraction and record-reconstruction engine of     *)
(* mitre_cli (src/src/attack/*.rs, src/src/lib.rs).                        *)
(*                                                                         *)
(* Encoding of the Rust values:                                            *)
(*   String        a sequence of one-character strings, "" is <<>>         *)
(*   Vec<T>        a sequence                                              *)
(*   Option<T>     None is <<>>, Some(x) is <<x>>                          *)
(*   Row           the sequence of its cols; Table the sequence of its rows*)
(*   a conversion  [status |-> "ok", value |-> v], or status "panic" when  *)
(*                 the code indexes a Vec out of bounds                    *)
(***************************************************************************)
EXTENDS Integers, Sequences, FiniteSets, TLC

VARIABLES table, row, web, op, out, sync, disk

vars == <<table, row, web, op, out, sync, disk>>

(***************************************************************************)
(* Bounds of the model.                                                    *)
(***************************************************************************)
MaxRows == 3

MaxCols == 5

MaxNodes == 4

(***************************************************************************)
(* Option<T>.                                                              *)
(***************************************************************************)
None == <<>>

Some(x) == <<x>>

is_some(o) == Len(o) = 1

unwrap(o) == o[1]

(***************************************************************************)
(* Characters and str methods.                                             *)
(***************************************************************************)
Digits == {"0", "1", "2", "3", "4", "5", "6", "7", "8", "9"}

Whitespace == {" ", "\n", "\t"}

is_empty(s) == Len(s) = 0

starts_with(s, c) == Len(s) > 0 /\ s[1] = c

contains(s, c) == \E i \in 1..Len(s) : s[i] = c

\* str::trim: the longest slice without leading and trailing whitespace.
trim(s) ==
    LET keep == {i \in 1..Len(s) : s[i] \notin Whitespace}
        lo == CHOOSE i \in keep : \A j \in keep : i <= j
        hi == CHOOSE i \in keep : \A j \in keep : j <= i
    IN IF keep = {} THEN <<>> ELSE SubSeq(s, lo, hi)

\* str::split(sep) for a non-empty separator string: the pieces between the
\* occurrences of sep, found left to right without overlap.
split_on(s, sep) ==
    LET n == Len(s)
        k == Len(sep)
        at(i) == i + k - 1 <= n /\ SubSeq(s, i, i + k - 1) = sep
        f[i \in 1..(n + 1)] ==
            \* the pieces of s[i..n]
            IF i > n THEN << <<>> >>
            ELSE IF at(i) THEN << <<>> >> \o f[i + k]
            ELSE LET p == f[i + 1]
                 IN [p EXCEPT ![1] = <<s[i]>> \o p[1]]
    IN f[1]

\* str::split_whitespace: the non-empty pieces between whitespace characters.
split_whitespace(s) ==
    LET n == Len(s)
        f[i \in 1..(n + 1)] ==
            IF i > n THEN << <<>> >>
            ELSE IF s[i] \in Whitespace THEN << <<>> >> \o f[i + 1]
            ELSE LET p == f[i + 1]
                 IN [p EXCEPT ![1] = <<s[i]>> \o p[1]]
    IN SelectSeq(f[1], LAMBDA piece : Len(piece) > 0)

\* [&str]::join(sep)
join(pieces, sep) ==
    LET f[i \in 0..Len(pieces)] ==
            IF i = 0 THEN <<>>
            ELSE IF i = 1 THEN pieces[1]
            ELSE f[i - 1] \o sep \o pieces[i]
    IN f[Len(pieces)]

map_trim(pieces) == [i \in 1..Len(pieces) |-> trim(pieces[i])]

\* .split("\n").map(|s| s.trim().to_string()).collect::<Vec<String>>().join("\n")
trim_lines(s) == join(map_trim(split_on(s, <<"\n">>)), <<"\n">>)

\* the same, applied only when the text contains a line break
trim_lines_if_multiline(s) == IF contains(s, "\n") THEN trim_lines(s) ELSE s

\* the mutant of replace_all_refs: only the first match is removed
replace_first_ref(s) ==
    LET n == Len(s)
        match_end(i) ==
            IF s[i] # "[" THEN 0
            ELSE LET stop == {j \in (i + 1)..n : s[j] \notin Digits}
                     j == CHOOSE k \in stop : \A m \in stop : k <= m
                 IN IF stop = {} THEN 0
                    ELSE IF j > i + 1 /\ s[j] = "]" THEN j ELSE 0
        starts == {i \in 1..n : match_end(i) # 0}
        first == CHOOSE i \in starts : \A m \in starts : i <= m
    IN IF starts = {} THEN s
       ELSE SubSeq(s, 1, first - 1) \o SubSeq(s, match_end(first) + 1, n)

\* Regex::replace_all(text, "") for the pattern \[[0-9]+\]: matches are found
\* left to right and do not overlap.
replace_all_refs(s) ==
    LET n == Len(s)
        \* the index of the "]" closing a match that starts at i, or 0
        match_end(i) ==
            IF s[i] # "[" THEN 0
            ELSE LET stop == {j \in (i + 1)..n : s[j] \notin Digits}
                     j == CHOOSE k \in stop : \A m \in stop : k <= m
                 IN IF stop = {} THEN 0
                    ELSE IF j > i + 1 /\ s[j] = "]" THEN j ELSE 0
        f[i \in 1..(n + 1)] ==
            IF i > n THEN <<>>
            ELSE IF match_end(i) # 0
                 THEN (IF match_end(i) + 1 > n THEN <<>> ELSE f[match_end(i) + 1])
                 ELSE <<s[i]>> \o f[i + 1]
    IN f[1]

remove_ext_link_ref(text) ==
    join(split_whitespace(replace_all_refs(text)), <<" ">>)

(***************************************************************************)
(* Row.                                                                    *)
(***************************************************************************)
\* Row::get_col(inx): the column at inx when the row has one.
get_col(r, inx) == IF inx < Len(r) THEN Some(r[inx + 1]) ELSE None

\* Table::is_empty(): the table has no body row.
table_is_empty(t) == Len(t) = 0

\* row.cols[inx]: indexing a Vec panics out of bounds.
cols_in_bounds(r, inx) == inx < Len(r)

cols(r, inx) == r[inx + 1]

(***************************************************************************)
(* Technique list rows (attack/techniques.rs).                             *)
(***************************************************************************)
\* impl From<Row> for SubTechniqueRow
SubTechniqueRow_from(r) ==
    [id |-> IF is_some(get_col(r, 1)) THEN unwrap(get_col(r, 1)) ELSE <<>>,
     name |-> IF is_some(get_col(r, 2)) THEN unwrap(get_col(r, 2)) ELSE <<>>,
     description |-> IF is_some(get_col(r, 3))
                     THEN trim_lines_if_multiline(unwrap(get_col(r, 3)))
                     ELSE <<>>]

\* the mutant of TechniqueRow::from: the children start as an empty list
TechniqueRow_from_with_empty_list(r) ==
    [id |-> IF is_some(get_col(r, 0)) THEN unwrap(get_col(r, 0)) ELSE <<>>,
     name |-> IF is_some(get_col(r, 1)) THEN unwrap(get_col(r, 1)) ELSE <<>>,
     description |-> IF is_some(get_col(r, 2))
                     THEN trim_lines_if_multiline(unwrap(get_col(r, 2)))
                     ELSE <<>>,
     sub_techniques |-> Some(<<>>)]

\* impl From<Row> for TechniqueRow
TechniqueRow_from(r) ==
    [id |-> IF is_some(get_col(r, 0)) THEN unwrap(get_col(r, 0)) ELSE <<>>,
     name |-> IF is_some(get_col(r, 1)) THEN unwrap(get_col(r, 1)) ELSE <<>>,
     description |-> IF is_some(get_col(r, 2))
                     THEN trim_lines_if_multiline(unwrap(get_col(r, 2)))
                     ELSE <<>>,
     sub_techniques |-> None]

\* TechniqueRow::default()
TechniqueRow_default ==
    [id |-> <<>>, name |-> <<>>, description |-> <<>>, sub_techniques |-> None]

\* add_subtechnique with the new child put first instead of last
add_subtechnique_front(self, subtechnique) ==
    LET subs == IF is_some(self.sub_techniques) THEN unwrap(self.sub_techniques)
                ELSE <<>>
        sub == [subtechnique EXCEPT
                  !.id = self.id \o subtechnique.id,
                  !.name = self.name \o <<":", " ">> \o subtechnique.name]
    IN [self EXCEPT !.sub_techniques = Some(<<sub>> \o subs)]

\* TechniqueRow::add_subtechnique
add_subtechnique(self, subtechnique) ==
    LET subs == IF is_some(self.sub_techniques) THEN unwrap(self.sub_techniques)
                ELSE <<>>
        sub == [subtechnique EXCEPT
                  !.id = self.id \o subtechnique.id,
                  !.name = self.name \o <<":", " ">> \o subtechnique.name]
    IN [self EXCEPT !.sub_techniques = Some(Append(subs, sub))]

\* list.push(Rc::clone(&current)): the new record is the last of the list and
\* the one the loop holds
pushed(a, list, current, record) ==
    [a EXCEPT ![list] = Append(@, record), !.attached = TRUE, ![current] = record]

\* impl From<Table> for TechniquesTable.  `technique` is the Rc the loop
\* holds: it is the last element pushed (attached) or, before any push, a
\* default record that is in no list and is dropped at the end.
TechniquesTable_from(t) ==
    LET f[i \in 0..Len(t)] ==
            IF i = 0
            THEN [panicked |-> FALSE, techniques |-> <<>>, attached |-> FALSE,
                  technique |-> TechniqueRow_default]
            ELSE LET a == f[i - 1]
                     r == t[i]
                 IN IF a.panicked THEN a
                    ELSE IF ~cols_in_bounds(r, 0) THEN [a EXCEPT !.panicked = TRUE]
                    ELSE IF ~is_empty(cols(r, 0))
                    THEN pushed(a, "techniques", "technique", TechniqueRow_from(r))
                    ELSE LET upd == add_subtechnique(a.technique,
                                                     SubTechniqueRow_from(r))
                         IN [a EXCEPT
                               !.technique = upd,
                               !.techniques =
                                  IF a.attached
                                  THEN [a.techniques EXCEPT
                                          ![Len(a.techniques)] = upd]
                                  ELSE a.techniques]
        res == f[Len(t)]
    IN IF res.panicked THEN [status |-> "panic", value |-> <<>>]
       ELSE [status |-> "ok", value |-> res.techniques]

(***************************************************************************)
(* Domain technique rows (attack/techniques.rs, mod domain).               *)
(***************************************************************************)
\* .split("\n").map(trim).join("\n") of remove_ext_link_ref(&text.trim())
used_for_text(text) == trim_lines(remove_ext_link_ref(trim(text)))

\* impl From<Row> for DomainSubTechniqueRow
DomainSubTechniqueRow_from(r) ==
    [id |-> IF is_some(get_col(r, 2)) THEN unwrap(get_col(r, 2)) ELSE <<>>,
     name |-> IF is_some(get_col(r, 3)) THEN unwrap(get_col(r, 3)) ELSE <<>>,
     used_for |-> IF is_some(get_col(r, 4))
                  THEN used_for_text(unwrap(get_col(r, 4)))
                  ELSE <<>>]

\* DomainTechniqueRow::default()
DomainTechniqueRow_default ==
    [domain |-> <<>>, id |-> <<>>, name |-> <<>>, used_for |-> <<>>,
     sub_techniques |-> None]

\* the mapper with a cursor that skips the domain column only when it holds a
\* value, and that joins the id and its suffix with a separator
DomainTechniqueRow_from_shifting(r) ==
    LET domain == get_col(r, 0)
        inx1 == IF is_some(domain) /\ ~is_empty(unwrap(domain)) THEN 1 ELSE 0
        id == get_col(r, inx1)
        inx2 == IF is_some(id) THEN inx1 + 1 ELSE inx1
        sub_id == get_col(r, inx2)
        has_sub == is_some(sub_id) /\ starts_with(unwrap(sub_id), ".")
        inx3 == IF has_sub THEN inx2 + 1 ELSE inx2
        name == get_col(r, inx3)
        inx4 == IF is_some(name) THEN inx3 + 1 ELSE inx3
        used_for == get_col(r, inx4)
        base_id == IF is_some(id) THEN unwrap(id) ELSE <<>>
    IN [domain |-> IF inx1 = 1 THEN unwrap(domain) ELSE <<>>,
        id |-> IF has_sub THEN base_id \o <<"/">> \o unwrap(sub_id) ELSE base_id,
        name |-> IF is_some(name) THEN unwrap(name) ELSE <<>>,
        used_for |-> IF is_some(used_for) THEN used_for_text(unwrap(used_for))
                     ELSE <<>>,
        sub_techniques |-> None]

\* if let Some(..) = row.get_col(inx) { ..; inx += 1; }
advanced(r, inx) == IF is_some(get_col(r, inx)) THEN inx + 1 ELSE inx

\* if let Some(sub_id) = row.get_col(inx) { if sub_id.starts_with(".") { ..; inx += 1; } }
advanced_on_suffix(r, inx) ==
    IF is_some(get_col(r, inx)) /\ starts_with(unwrap(get_col(r, inx)), ".")
    THEN inx + 1 ELSE inx

\* the running read cursor inx of the two domain row mappers: its value
\* before the domain (0), the id (1), the id suffix (2), the name (3) and
\* the last column (4) are read
cursor(r) ==
    LET inx[k \in 0..4] ==
            IF k = 0 THEN 0
            ELSE IF k = 3 THEN advanced_on_suffix(r, inx[k - 1])
            ELSE advanced(r, inx[k - 1])
    IN inx

\* get_col(inx).unwrap_or_default at a cursor position
col_at(r, inx) == IF is_some(get_col(r, inx)) THEN unwrap(get_col(r, inx)) ELSE <<>>

\* the fields of a DomainTechniqueRow read at the cursor positions inx
DomainTechniqueRow_read(r, inx) ==
    [domain |-> col_at(r, inx[0]),
     id |-> IF inx[3] > inx[2] THEN col_at(r, inx[1]) \o col_at(r, inx[2])
            ELSE col_at(r, inx[1]),
     name |-> col_at(r, inx[3]),
     used_for |-> IF is_some(get_col(r, inx[4]))
                  THEN used_for_text(unwrap(get_col(r, inx[4])))
                  ELSE <<>>,
     sub_techniques |-> None]

\* impl From<Row> for DomainTechniqueRow: inx is the running read cursor.
DomainTechniqueRow_from(r) == DomainTechniqueRow_read(r, cursor(r))

\* DomainTechniqueRow::add_sub_technique
add_sub_technique(self, sub_technique) ==
    LET subs == IF is_some(self.sub_techniques) THEN unwrap(self.sub_techniques)
                ELSE <<>>
    IN [self EXCEPT !.sub_techniques = Some(Append(subs, sub_technique))]

\* impl From<Table> for DomainTechniquesTable
DomainTechniquesTable_from(t) ==
    LET f[i \in 0..Len(t)] ==
            IF i = 0
            THEN [panicked |-> FALSE, retrieved_techniques |-> <<>>,
                  attached |-> FALSE, technique |-> DomainTechniqueRow_default]
            ELSE LET a == f[i - 1]
                     r == t[i]
                 IN IF a.panicked THEN a
                    ELSE IF ~cols_in_bounds(r, 0) THEN [a EXCEPT !.panicked = TRUE]
                    ELSE IF ~is_empty(cols(r, 0))
                    THEN pushed(a, "retrieved_techniques", "technique",
                                DomainTechniqueRow_from(r))
                    ELSE LET upd == add_sub_technique(a.technique,
                                                      DomainSubTechniqueRow_from(r))
                         IN [a EXCEPT
                               !.technique = upd,
                               !.retrieved_techniques =
                                  IF a.attached
                                  THEN [a.retrieved_techniques EXCEPT
                                          ![Len(a.retrieved_techniques)] = upd]
                                  ELSE a.retrieved_techniques]
        res == f[Len(t)]
    IN IF res.panicked THEN [status |-> "panic", value |-> <<>>]
       ELSE [status |-> "ok", value |-> res.retrieved_techniques]

(***************************************************************************)
(* Data-source detection rows (attack/data_sources.rs).                    *)
(***************************************************************************)
\* impl From<Row> for SubDetectionRow
SubDetectionRow_from(r) ==
    [id |-> IF is_some(get_col(r, 2)) THEN unwrap(get_col(r, 2)) ELSE <<>>,
     name |-> IF is_some(get_col(r, 3)) THEN unwrap(get_col(r, 3)) ELSE <<>>,
     detects |-> IF is_some(get_col(r, 4))
                 THEN remove_ext_link_ref(unwrap(get_col(r, 4)))
                 ELSE <<>>]

\* data_sources::DetectionRow::default()
DsDetectionRow_default ==
    [domain |-> <<>>, id |-> <<>>, name |-> <<>>, detects |-> <<>>,
     sub_detections |-> None]

\* the fields of a data_sources::DetectionRow read at the cursor positions inx
DsDetectionRow_read(r, inx) ==
    [domain |-> col_at(r, inx[0]),
     id |-> IF inx[3] > inx[2] THEN col_at(r, inx[1]) \o col_at(r, inx[2])
            ELSE col_at(r, inx[1]),
     name |-> col_at(r, inx[3]),
     detects |-> IF is_some(get_col(r, inx[4]))
                 THEN remove_ext_link_ref(unwrap(get_col(r, inx[4])))
                 ELSE <<>>,
     sub_detections |-> None]

\* impl From<Row> for data_sources::DetectionRow
DsDetectionRow_from(r) == DsDetectionRow_read(r, cursor(r))

\* data_sources::DetectionRow::add_subdetection
add_subdetection(self, sub_detection) ==
    LET subs == IF is_some(self.sub_detections) THEN unwrap(self.sub_detections)
                ELSE <<>>
        sub == [sub_detection EXCEPT
                  !.id = self.id \o sub_detection.id,
                  !.name = self.name \o sub_detection.name]
    IN [self EXCEPT !.sub_detections = Some(Append(subs, sub))]

\* impl From<Table> for data_sources::DetectionsTable
DsDetectionsTable_from(t) ==
    LET f[i \in 0..Len(t)] ==
            IF i = 0
            THEN [panicked |-> FALSE, retrieved_detections |-> <<>>,
                  attached |-> FALSE, detection |-> DsDetectionRow_default]
            ELSE LET a == f[i - 1]
                     r == t[i]
                 IN IF a.panicked THEN a
                    ELSE IF ~cols_in_bounds(r, 0) THEN [a EXCEPT !.panicked = TRUE]
                    ELSE IF ~is_empty(cols(r, 0))
                    THEN pushed(a, "retrieved_detections", "detection",
                                DsDetectionRow_from(r))
                    ELSE LET upd == add_subdetection(a.detection,
                                                     SubDetectionRow_from(r))
                         IN [a EXCEPT
                               !.detection = upd,
                               !.retrieved_detections =
                                  IF a.attached
                                  THEN [a.retrieved_detections EXCEPT
                                          ![Len(a.retrieved_detections)] = upd]
                                  ELSE a.retrieved_detections]
        res == f[Len(t)]
    IN IF res.panicked THEN [status |-> "panic", value |-> <<>>]
       ELSE [status |-> "ok", value |-> res.retrieved_detections]

(***************************************************************************)
(* Technique detection rows (attack/techniques.rs): the sticky columns.    *)
(***************************************************************************)
\* impl From<Row> for techniques::DetectionRow
DetectionRow_from(r) ==
    [id |-> IF is_some(get_col(r, 0)) THEN unwrap(get_col(r, 0)) ELSE <<>>,
     data_source |-> IF is_some(get_col(r, 1)) THEN unwrap(get_col(r, 1)) ELSE <<>>,
     data_comp |-> IF is_some(get_col(r, 2)) THEN unwrap(get_col(r, 2)) ELSE <<>>,
     detects |-> IF is_some(get_col(r, 3))
                 THEN Some(remove_ext_link_ref(trim(unwrap(get_col(r, 3)))))
                 ELSE None]

\* the conversion without the carried values: every row read on its own
OptDetectionsTable_from_unsticky(t) ==
    IF table_is_empty(t) THEN [status |-> "ok", value |-> None]
    ELSE IF \E i \in 1..Len(t) : ~cols_in_bounds(t[i], 1)
    THEN [status |-> "panic", value |-> <<>>]
    ELSE [status |-> "ok",
          value |-> Some([i \in 1..Len(t) |-> DetectionRow_from(t[i])])]

\* the conversion with the data source forgotten at each new id
OptDetectionsTable_from_resetting(t) ==
    LET f[i \in 0..Len(t)] ==
            IF i = 0
            THEN [panicked |-> FALSE, rows |-> <<>>, base_id |-> <<>>,
                  base_data_source |-> <<>>]
            ELSE LET a == f[i - 1]
                     r == t[i]
                 IN IF a.panicked THEN a
                    ELSE IF ~cols_in_bounds(r, 0) \/ ~cols_in_bounds(r, 1)
                    THEN [a EXCEPT !.panicked = TRUE]
                    ELSE LET bid == IF ~is_empty(cols(r, 0)) THEN cols(r, 0)
                                    ELSE a.base_id
                             bds == IF ~is_empty(cols(r, 1)) THEN cols(r, 1)
                                    ELSE IF ~is_empty(cols(r, 0)) THEN <<>>
                                    ELSE a.base_data_source
                             d == [DetectionRow_from(r) EXCEPT
                                     !.id = bid, !.data_source = bds]
                         IN [a EXCEPT !.base_id = bid, !.base_data_source = bds,
                                      !.rows = Append(a.rows, d)]
        res == f[Len(t)]
    IN IF table_is_empty(t) THEN [status |-> "ok", value |-> None]
       ELSE IF res.panicked THEN [status |-> "panic", value |-> <<>>]
       ELSE [status |-> "ok", value |-> Some(res.rows)]

\* impl From<Table> for Option<techniques::DetectionsTable>
OptDetectionsTable_from(t) ==
    LET f[i \in 0..Len(t)] ==
            IF i = 0
            THEN [panicked |-> FALSE, rows |-> <<>>, base_id |-> <<>>,
                  base_data_source |-> <<>>]
            ELSE LET a == f[i - 1]
                     r == t[i]
                 IN IF a.panicked THEN a
                    ELSE IF ~cols_in_bounds(r, 0) \/ ~cols_in_bounds(r, 1)
                    THEN [a EXCEPT !.panicked = TRUE]
                    ELSE LET bid == IF ~is_empty(cols(r, 0)) THEN cols(r, 0)
                                    ELSE a.base_id
                             bds == IF ~is_empty(cols(r, 1)) THEN cols(r, 1)
                                    ELSE a.base_data_source
                             d == [DetectionRow_from(r) EXCEPT
                                     !.id = bid, !.data_source = bds]
                         IN [a EXCEPT !.base_id = bid, !.base_data_source = bds,
                                      !.rows = Append(a.rows, d)]
        res == f[Len(t)]
    IN IF table_is_empty(t) THEN [status |-> "ok", value |-> None]
       ELSE IF res.panicked THEN [status |-> "panic", value |-> <<>>]
       ELSE [status |-> "ok", value |-> Some(res.rows)]

(***************************************************************************)
(* Flat list rows: one record per row, fields at fixed positions.          *)
(***************************************************************************)
\* if let Some(v) = row.get_col(inx) { field = v.to_string() }
col_or_default(r, inx) ==
    IF is_some(get_col(r, inx)) THEN unwrap(get_col(r, inx)) ELSE <<>>

\* impl From<Row> for TacticRow (attack/tactics.rs)
TacticRow_from(r) ==
    [id |-> col_or_default(r, 0),
     name |-> col_or_default(r, 1),
     description |-> trim_lines_if_multiline(col_or_default(r, 2))]

\* impl From<Row> for MitigationRow (attack/mitigations.rs)
MitigationRow_from(r) ==
    [id |-> col_or_default(r, 0),
     name |-> col_or_default(r, 1),
     description |-> trim_lines_if_multiline(col_or_default(r, 2))]

\* impl From<Row> for GroupRow (attack/groups.rs)
GroupRow_from(r) ==
    [id |-> col_or_default(r, 0),
     name |-> col_or_default(r, 1),
     assoc_groups |-> IF is_some(get_col(r, 2))
                      THEN Some(split_on(unwrap(get_col(r, 2)), <<",">>))
                      ELSE None,
     description |-> trim_lines_if_multiline(col_or_default(r, 3))]

\* impl From<Row> for groups::SoftwareRow (attack/groups.rs)
GroupSoftwareRow_from(r) ==
    [id |-> col_or_default(r, 0),
     name |-> col_or_default(r, 1),
     techniques |-> IF is_some(get_col(r, 3))
                    THEN split_on(unwrap(get_col(r, 3)), <<",">>)
                    ELSE <<>>]

\* impl From<Row> for software::SoftwareRow (attack/software.rs)
SoftwareRow_from(r) ==
    [id |-> col_or_default(r, 0),
     name |-> col_or_default(r, 1),
     assoc_software |-> IF is_some(get_col(r, 2))
                        THEN Some(split_on(unwrap(get_col(r, 2)), <<",", " ">>))
                        ELSE None,
     description |-> trim_lines_if_multiline(col_or_default(r, 3))]

\* impl From<Row> for AssocGroupsRow (attack/software.rs)
AssocGroupsRow_from(r) ==
    [id |-> col_or_default(r, 0), name |-> col_or_default(r, 1)]

\* impl From<Row> for DataSourceRow (attack/data_sources.rs)
DataSourceRow_from(r) ==
    [id |-> col_or_default(r, 0),
     name |-> col_or_default(r, 1),
     domain |-> trim_lines_if_multiline(col_or_default(r, 2)),
     description |-> trim_lines_if_multiline(col_or_default(r, 3))]

\* impl From<&String> for ProcedureType
ProcedureType_from(str_val) ==
    IF starts_with(str_val, "S") THEN "SOFTWARE"
    ELSE IF starts_with(str_val, "G") THEN "GROUP"
    ELSE "UNKNOWN"

\* .split("\n").map(|s| remove_ext_link_ref(s.trim())).join("\n")
procedure_text(desc) ==
    LET pieces == split_on(desc, <<"\n">>)
    IN join([i \in 1..Len(pieces) |-> remove_ext_link_ref(trim(pieces[i]))],
            <<"\n">>)

\* impl From<Row> for ProcedureRow (attack/techniques.rs)
ProcedureRow_from(r) ==
    [id |-> col_or_default(r, 0),
     name |-> col_or_default(r, 1),
     description |-> IF is_some(get_col(r, 2))
                     THEN procedure_text(unwrap(get_col(r, 2)))
                     ELSE <<>>,
     procedure_type |-> IF is_some(get_col(r, 0))
                        THEN ProcedureType_from(unwrap(get_col(r, 0)))
                        ELSE "UNKNOWN"]

\* the mutant of TacticsTable::from: rows with an empty id are left out
TacticsTable_from_skipping_blank_ids(t) ==
    [status |-> "ok",
     value |-> SelectSeq([i \in 1..Len(t) |-> TacticRow_from(t[i])],
                         LAMBDA tactic : tactic.id # <<>>)]

\* table.into_iter().map(X::from).collect(), for each flat table type
TacticsTable_from(t) ==
    [status |-> "ok", value |-> [i \in 1..Len(t) |-> TacticRow_from(t[i])]]

MitigationTable_from(t) ==
    [status |-> "ok", value |-> [i \in 1..Len(t) |-> MitigationRow_from(t[i])]]

GroupsTable_from(t) ==
    [status |-> "ok", value |-> [i \in 1..Len(t) |-> GroupRow_from(t[i])]]

SoftwareTable_from(t) ==
    [status |-> "ok", value |-> [i \in 1..Len(t) |-> SoftwareRow_from(t[i])]]

DataSourcesTable_from(t) ==
    [status |-> "ok", value |-> [i \in 1..Len(t) |-> DataSourceRow_from(t[i])]]

ProceduresTable_from(t) ==
    [status |-> "ok", value |-> [i \in 1..Len(t) |-> ProcedureRow_from(t[i])]]

AssocGroupsTable_from(t) ==
    [status |-> "ok", value |-> [i \in 1..Len(t) |-> AssocGroupsRow_from(t[i])]]

\* Group::fetch_group, the aliasDescription table:
\* assoc_groups_table.into_iter().map(|row| row.cols[0].clone()).collect()
assoc_groups_from(t) ==
    IF \E i \in 1..Len(t) : ~cols_in_bounds(t[i], 0)
    THEN [status |-> "panic", value |-> <<>>]
    ELSE [status |-> "ok", value |-> [i \in 1..Len(t) |-> cols(t[i], 0)]]

(***************************************************************************)
(* Inputs.  A cell is any text; the cells below cover an empty cell, a     *)
(* plain id, a "."-suffix, a plain name and a text with a reference        *)
(* marker, inner whitespace and a line break.                              *)
(***************************************************************************)
Blank == <<>>

CellE == <<"E">>

CellT == <<"T", "1">>

CellDot == <<".", "2">>

CellN == <<"N">>

CellM == <<"M">>

CellU == <<"u", "[", "1", "]", " ", "\n", " ", "v">>

\* Rows of five columns: the first column blank or not, the second blank or
\* not, the third a "."-suffix or not.
FullRows ==
    {<<c0, c1, c2, CellM, CellU>> :
        c0 \in {Blank, CellE}, c1 \in {Blank, CellT}, c2 \in {CellDot, CellN}}

\* Rows with fewer columns than the mappers read, the row without any column
\* included.
ShortRows == {SubSeq(r, 1, k) : r \in FullRows, k \in 0..2}

TableRows == FullRows \cup ShortRows

SeqsUpTo(S, n) == UNION {[1..k -> S] : k \in 0..n}

Tables == SeqsUpTo(TableRows, MaxRows)

NoOut == [status |-> "none", value |-> <<>>]

\* no sync command started, and nothing in the cache directory
NoSync == [command |-> "", pc |-> "idle", rest |-> <<>>, log |-> <<>>,
           result |-> NoOut]

\* lists: the list files by <<directory, entity>>; details: the files of the
\* entities by <<directory, id>>
NoDisk == [lists |-> <<>>, details |-> <<>>]

\* calls counts the fetch calls made on the client
NoWeb == [error_response |-> None, success_response |-> <<>>, calls |-> 0]

(***************************************************************************)
(* The table conversions, each applied to a table the scraper returned.    *)
(***************************************************************************)
Init ==
    /\ table \in Tables
    /\ row = <<>>
    /\ web = NoWeb
    /\ op = "idle"
    /\ out = NoOut
    /\ sync = NoSync
    /\ disk = NoDisk

Convert(kind, result) ==
    /\ op = "idle"
    /\ op' = kind
    /\ out' = result
    /\ UNCHANGED <<table, row, web, sync, disk>>

ToTechniquesTable == Convert("TechniquesTable", TechniquesTable_from(table))

ToDomainTechniquesTable ==
    Convert("DomainTechniquesTable", DomainTechniquesTable_from(table))

ToDsDetectionsTable == Convert("DsDetectionsTable", DsDetectionsTable_from(table))

ToAssocGroups == Convert("assoc_groups", assoc_groups_from(table))

Next ==
    \/ ToTechniquesTable
    \/ ToDomainTechniquesTable
    \/ ToDsDetectionsTable
    \/ ToAssocGroups

Spec == Init /\ [][Next]_vars

(***************************************************************************)
(* The sticky detection conversion, on tables whose two sticky columns     *)
(* take two different non-blank values.                                    *)
(***************************************************************************)
CellD == <<"D", "S">>

CellA == <<"A">>

StickyRows ==
    {<<c0, c1, CellN, CellU>> : c0 \in {Blank, CellT, CellD}, c1 \in {Blank, CellA, CellM}}
    \cup {<<c0>> : c0 \in {Blank, CellT}}
    \cup {<<>>, <<Blank, Blank, CellN>>, <<CellD, CellA, CellN>>}

StickyTables == SeqsUpTo(StickyRows, MaxRows)

InitSticky ==
    /\ table \in StickyTables
    /\ row = <<>>
    /\ web = NoWeb
    /\ op = "idle"
    /\ out = NoOut
    /\ sync = NoSync
    /\ disk = NoDisk

ToOptDetectionsTable == Convert("OptDetectionsTable", OptDetectionsTable_from(table))

NextSticky == ToOptDetectionsTable

SpecSticky == InitSticky /\ [][NextSticky]_vars

(***************************************************************************)
(* What the claims speak of, read off the input table by row index.        *)
(***************************************************************************)
GroupingOps == {"TechniquesTable", "DomainTechniquesTable", "DsDetectionsTable"}

has_first_col(r) == Len(r) > 0

\* a row that starts a parent / a row that is a child: first column non-empty / empty
IsParentRow(r) == has_first_col(r) /\ r[1] # <<>>

IsChildRow(r) == has_first_col(r) /\ r[1] = <<>>

ParentIdx(t) == {i \in 1..Len(t) : IsParentRow(t[i])}

ChildIdx(t) == {i \in 1..Len(t) : IsChildRow(t[i])}

\* the index of the k-th parent row, and of the last row before the next one
NthParent(t, k) ==
    CHOOSE i \in ParentIdx(t) : Cardinality({j \in ParentIdx(t) : j < i}) = k - 1

SegEnd(t, k) ==
    IF k < Cardinality(ParentIdx(t)) THEN NthParent(t, k + 1) - 1 ELSE Len(t)

\* the children list of an output parent, empty when the field is absent
ChildList(kind, p) ==
    LET field == IF kind = "DsDetectionsTable" THEN p.sub_detections
                 ELSE p.sub_techniques
    IN IF is_some(field) THEN unwrap(field) ELSE <<>>

TotalChildren(kind, parents) ==
    LET f[k \in 0..Len(parents)] ==
            IF k = 0 THEN 0 ELSE f[k - 1] + Len(ChildList(kind, parents[k]))
    IN f[Len(parents)]

\* the parent and child records the mappers of each conversion read from a row
ParentOf(kind, r) ==
    IF kind = "TechniquesTable" THEN TechniqueRow_from(r)
    ELSE IF kind = "DomainTechniquesTable" THEN DomainTechniqueRow_from(r)
    ELSE DsDetectionRow_from(r)

SubOf(kind, r) ==
    IF kind = "TechniquesTable" THEN SubTechniqueRow_from(r)
    ELSE IF kind = "DomainTechniquesTable" THEN DomainSubTechniqueRow_from(r)
    ELSE SubDetectionRow_from(r)

\* the id column of a parent row, without the "."-suffix column after it
BaseIdOf(kind, r) ==
    IF kind = "TechniquesTable" THEN col_or_default(r, 0) ELSE col_or_default(r, 1)

\* the content fields of a child record, which no conversion rewrites
ChildText(kind, c) ==
    IF kind = "TechniquesTable" THEN c.description
    ELSE IF kind = "DomainTechniquesTable" THEN c.used_for
    ELSE c.detects

ends_with(s, suffix) ==
    /\ Len(suffix) <= Len(s)
    /\ SubSeq(s, Len(s) - Len(suffix) + 1, Len(s)) = suffix

Converted == op \in GroupingOps /\ out.status = "ok"

(***************************************************************************)
(* C1.  For every table whose first row has a non-empty first column, a    *)
(* grouping conversion returns one parent per row with a non-empty first   *)
(* column and one child per row with an empty first column, each child     *)
(* under the nearest preceding parent row: every row is in the output      *)
(* exactly once.                                                           *)
(***************************************************************************)
C1_EveryRowGroupedOnce ==
    (op \in GroupingOps /\ Len(table) > 0 /\ IsParentRow(table[1])) =>
        /\ out.status = "ok"
        /\ Len(out.value) = Cardinality(ParentIdx(table))
        /\ \A k \in 1..Len(out.value) :
              Len(ChildList(op, out.value[k])) = SegEnd(table, k) - NthParent(table, k)
        /\ Len(out.value) + TotalChildren(op, out.value) = Len(table)

\* The same statement for the tables in which every row has a first column.
C1_EveryRowGroupedOnceWhenNoRowIsEmpty ==
    (Converted /\ Len(table) > 0 /\ IsParentRow(table[1])) =>
        /\ Len(out.value) = Cardinality(ParentIdx(table))
        /\ TotalChildren(op, out.value) = Cardinality(ChildIdx(table))
        /\ \A k \in 1..Len(out.value) :
              Len(ChildList(op, out.value[k])) = SegEnd(table, k) - NthParent(table, k)

(***************************************************************************)
(* C2.  A grouping conversion of a table in which a row with an empty      *)
(* first column comes before every row with a non-empty first column ends  *)
(* in a failure, not in a result.                                          *)
(***************************************************************************)
ChildBeforeAnyParent(t) ==
    \E i \in 1..Len(t) :
        /\ IsChildRow(t[i])
        /\ \A j \in 1..(i - 1) : ~IsParentRow(t[j])

C2_OrphanChildIsRaised ==
    (op \in GroupingOps /\ ChildBeforeAnyParent(table)) => out.status # "ok"

(***************************************************************************)
(* C3.  A conversion of a table with rows shorter than the mapper reads,   *)
(* the row without columns included, completes, and the fields of the      *)
(* missing columns are empty.                                              *)
(***************************************************************************)
C3_ShortRowsNeverPanic ==
    (op # "idle") =>
        /\ out.status = "ok"
        /\ op \in GroupingOps =>
              \A k \in 1..Len(out.value) :
                  Len(table[NthParent(table, k)]) <= 1 => out.value[k].name = <<>>

(***************************************************************************)
(* C4.  In the output of a grouping conversion the k-th parent is the      *)
(* record of the k-th row with a non-empty first column, and its j-th      *)
(* child is the record of the j-th row after that one: parents and         *)
(* children keep the order of their rows.                                  *)
(***************************************************************************)
C4_OrderPreserved ==
    Converted =>
        /\ Len(out.value) = Cardinality(ParentIdx(table))
        /\ \A k \in 1..Len(out.value) :
              LET i == NthParent(table, k)
                  p == out.value[k]
                  from == ParentOf(op, table[i])
                  kids == ChildList(op, p)
              IN /\ p.id = from.id
                 /\ p.name = from.name
                 /\ Len(kids) = SegEnd(table, k) - i
                 /\ \A j \in 1..Len(kids) :
                       LET sub == SubOf(op, table[i + j])
                       IN /\ ends_with(kids[j].id, sub.id)
                          /\ ends_with(kids[j].name, sub.name)
                          /\ ChildText(op, kids[j]) = ChildText(op, sub)

\* a parent with two children read from two different rows
C4_Witness ==
    /\ Converted
    /\ Len(out.value) >= 1
    /\ \E k \in 1..Len(out.value) :
          LET kids == ChildList(op, out.value[k])
          IN Len(kids) >= 2 /\ kids[1] # kids[2]

(***************************************************************************)
(* C6.  Every child record of a grouping conversion has the id of its      *)
(* parent row's id column followed by its own suffix, and the name of its  *)
(* parent qualified with its own name.                                     *)
(***************************************************************************)
NameSeparators == {<<":", " ">>, <<":">>, <<" ">>, <<>>}

C6_ChildIdAndNameCompound ==
    Converted =>
        \A k \in 1..Len(out.value) :
            LET i == NthParent(table, k)
                p == out.value[k]
                kids == ChildList(op, p)
            IN \A j \in 1..Len(kids) :
                  LET sub == SubOf(op, table[i + j])
                  IN /\ kids[j].id = BaseIdOf(op, table[i]) \o sub.id
                     /\ \E sep \in NameSeparators :
                           kids[j].name = p.name \o sep \o sub.name

(***************************************************************************)
(* C7.  In the technique detection conversion every output row has the id  *)
(* and data_source of the nearest row at or before it where column 0,      *)
(* respectively column 1, is non-blank, and its own data_comp and detects; *)
(* there is one output row per input row, in input order.                  *)
(***************************************************************************)
\* the rows at or before i where column c (counted from 0) is non-blank
NonBlankUpTo(t, i, c) == {j \in 1..i : cols(t[j], c) # <<>>}

Nearest(S) == CHOOSE j \in S : \A m \in S : m <= j

C7_StickyColumns ==
    (op = "OptDetectionsTable" /\ out.status = "ok" /\ Len(table) > 0) =>
        /\ is_some(out.value)
        /\ Len(unwrap(out.value)) = Len(table)
        /\ \A i \in 1..Len(table) :
              LET d == unwrap(out.value)[i]
                  own == DetectionRow_from(table[i])
                  ids == NonBlankUpTo(table, i, 0)
                  srcs == NonBlankUpTo(table, i, 1)
              IN /\ ids # {} => d.id = cols(table[Nearest(ids)], 0)
                 /\ srcs # {} => d.data_source = cols(table[Nearest(srcs)], 1)
                 /\ d.data_comp = own.data_comp
                 /\ d.detects = own.detects

\* a row blank in both sticky columns that follows two rows with different
\* non-blank values: it carries those of the nearer one
C7_Witness ==
    /\ op = "OptDetectionsTable"
    /\ out.status = "ok"
    /\ Len(table) = 3
    /\ cols(table[1], 0) # <<>>
    /\ cols(table[2], 0) # <<>>
    /\ cols(table[1], 0) # cols(table[2], 0)
    /\ cols(table[1], 1) # cols(table[2], 1)
    /\ cols(table[2], 1) # <<>>
    /\ cols(table[3], 0) = <<>>
    /\ cols(table[3], 1) = <<>>
    /\ unwrap(out.value)[3].id = cols(table[2], 0)
    /\ unwrap(out.value)[3].data_source = cols(table[2], 1)

(***************************************************************************)
(* The row mappers, each applied to one row.                               *)
(***************************************************************************)
Cells == {Blank, CellE, CellT, CellDot, CellN, CellU}

Rows == SeqsUpTo(Cells, MaxCols)

InitRow ==
    /\ row \in Rows
    /\ table = <<>>
    /\ web = NoWeb
    /\ op = "idle"
    /\ out = NoOut
    /\ sync = NoSync
    /\ disk = NoDisk

MapRow(kind, record) ==
    /\ op = "idle"
    /\ op' = kind
    /\ out' = [status |-> "ok", value |-> record]
    /\ UNCHANGED <<table, row, web, sync, disk>>

ToDomainTechniqueRow == MapRow("DomainTechniqueRow", DomainTechniqueRow_from(row))

ToDsDetectionRow == MapRow("DsDetectionRow", DsDetectionRow_from(row))

ToMitigationRow == MapRow("MitigationRow", MitigationRow_from(row))

ToTacticRow == MapRow("TacticRow", TacticRow_from(row))

ToGroupRow == MapRow("GroupRow", GroupRow_from(row))

ToGroupSoftwareRow == MapRow("GroupSoftwareRow", GroupSoftwareRow_from(row))

ToSoftwareRow == MapRow("SoftwareRow", SoftwareRow_from(row))

ToAssocGroupsRow == MapRow("AssocGroupsRow", AssocGroupsRow_from(row))

ToDataSourceRow == MapRow("DataSourceRow", DataSourceRow_from(row))

ToProcedureRow == MapRow("ProcedureRow", ProcedureRow_from(row))

NextRow ==
    \/ ToDomainTechniqueRow
    \/ ToDsDetectionRow
    \/ ToMitigationRow
    \/ ToTacticRow
    \/ ToGroupRow
    \/ ToGroupSoftwareRow
    \/ ToSoftwareRow
    \/ ToAssocGroupsRow
    \/ ToDataSourceRow
    \/ ToProcedureRow

SpecRow == InitRow /\ [][NextRow]_vars

DomainRowOps == {"DomainTechniqueRow", "DsDetectionRow"}

DomainRowOf(kind, r) ==
    IF kind = "DomainTechniqueRow" THEN DomainTechniqueRow_from(r)
    ELSE DsDetectionRow_from(r)

\* the text field after the name: used_for or detects
DomainRowText(kind, rec) ==
    IF kind = "DomainTechniqueRow" THEN rec.used_for ELSE rec.detects

(***************************************************************************)
(* C5.  In the domain-aware parent mappers, when the column after the base *)
(* id (column 2) starts with ".", the id is the base id directly followed  *)
(* by that column and the name is the column after it; otherwise the id is *)
(* the base id and that column is the name.                                *)
(***************************************************************************)
C5_CompoundId ==
    (op \in DomainRowOps /\ Len(row) >= 3) =>
        IF starts_with(cols(row, 2), ".")
        THEN /\ out.value.id = cols(row, 1) \o cols(row, 2)
             /\ out.value.name = col_or_default(row, 3)
        ELSE /\ out.value.id = cols(row, 1)
             /\ out.value.name = cols(row, 2)

\* a row with all its columns: domain, base id, suffix, name, text
C5_Witness ==
    /\ op \in DomainRowOps
    /\ row = <<CellE, CellT, CellDot, CellN, CellU>>
    /\ out.value.id = <<"T", "1", ".", "2">>
    /\ out.value.name = CellN

(***************************************************************************)
(* C8 as claimed.  A row (domain, id, name, description) and the row (id,  *)
(* name, description) without the leading domain value map to the same id, *)
(* name and description, the second with an empty domain.                  *)
(***************************************************************************)
\* a row (domain, id, name, description): four non-empty columns, the name no suffix
IsDomainIdNameText(r) ==
    /\ Len(r) = 4
    /\ \A i \in 1..4 : r[i] # <<>>
    /\ ~starts_with(r[3], ".")

C8_DomainShift ==
    (op \in DomainRowOps /\ IsDomainIdNameText(row)) =>
        LET without == DomainRowOf(op, Tail(row))
        IN /\ without.domain = <<>>
           /\ without.id = out.value.id
           /\ without.name = out.value.name
           /\ DomainRowText(op, without) = DomainRowText(op, out.value)

(***************************************************************************)
(* C8 as amended.  The domain-aware mappers read column 0 as the domain    *)
(* and column 1 as the base id whenever the row has them, whatever they    *)
(* hold: the cursor passes the domain column because the column exists.    *)
(* So the row (id, name, description) without the leading domain value is  *)
(* read with its id as the domain and its name as the base id; such rows   *)
(* map to id, name and description only through MitigationRow::from, which *)
(* reads the fixed columns 0, 1 and 2.                                     *)
(***************************************************************************)
starts_with_seq(s, prefix) ==
    Len(prefix) <= Len(s) /\ SubSeq(s, 1, Len(prefix)) = prefix

C8_DomainIsAlwaysColumnZero ==
    /\ (op \in DomainRowOps) =>
          /\ out.value.domain = col_or_default(row, 0)
          /\ starts_with_seq(out.value.id, col_or_default(row, 1))
          /\ Len(row) <= 1 => out.value.id = <<>>
          /\ IsDomainIdNameText(row) =>
                LET without == DomainRowOf(op, Tail(row))
                IN /\ without.domain = cols(row, 1)
                   /\ starts_with_seq(without.id, cols(row, 2))
                   /\ without.name \in {<<>>, cols(row, 3)}
    /\ (op = "MitigationRow") =>
          /\ out.value.id = col_or_default(row, 0)
          /\ out.value.name = col_or_default(row, 1)
          /\ Len(row) >= 3 => out.value.description = trim_lines_if_multiline(cols(row, 2))

\* a row (domain, id, name, description) whose form without the domain is misread
C8_Witness ==
    /\ op \in DomainRowOps
    /\ row = <<CellE, CellT, CellN, CellU>>
    /\ out.value.domain = CellE
    /\ out.value.id = CellT
    /\ out.value.name = CellN
    /\ DomainRowOf(op, Tail(row)).domain = CellT
    /\ DomainRowOf(op, Tail(row)).id = CellN

(***************************************************************************)
(* Documents (attack/mod.rs).  A parsed document is the sequence, in       *)
(* document order, of its h2, p and table elements.  name is the tag, id   *)
(* the value of node.attr("id"), direct tells whether the element is a     *)
(* child of div.container-fluid, and rows holds, for a table, the text of  *)
(* the td cells of each tr of its body, as written in the page.  text is   *)
(* the text of an h1 or p element, and within names the classed element    *)
(* that the selectors of the description and of the data-source page look  *)
(* for around it: "description-body" for a p of div.description-body,      *)
(* "section-view" for an a.anchor, a table.table or a p of an              *)
(* anchor-section description inside div.section-view, "" otherwise.       *)
(***************************************************************************)
Element(name, id, direct, rows, text, within) ==
    [name |-> name, id |-> id, direct |-> direct, rows |-> rows,
     text |-> text, within |-> within]

Node(name, id, direct, rows) == Element(name, id, direct, rows, <<>>, "")

\* the mutant of scrape_table: a tr without a td gives no Row
scrape_table_dropping_empty_rows(table_node) ==
    SelectSeq([i \in 1..Len(table_node.rows) |->
                  [j \in 1..Len(table_node.rows[i]) |-> trim(table_node.rows[i][j])]],
              LAMBDA r : r # <<>>)

\* fn scrape_table: one Row per tr, each td text trimmed
scrape_table(table_node) ==
    [i \in 1..Len(table_node.rows) |->
        [j \in 1..Len(table_node.rows[i]) |-> trim(table_node.rows[i][j])]]

\* fn scrape_tables: document.find(Name("table")).map(scrape_table).collect()
scrape_tables(document) ==
    LET f[i \in 0..Len(document)] ==
            IF i = 0 THEN <<>>
            ELSE IF document[i].name = "table"
                 THEN Append(f[i - 1], scrape_table(document[i]))
                 ELSE f[i - 1]
    IN f[Len(document)]

\* the mutant of scrape_entity_h2_tables: a slug keeps its first table
scrape_entity_h2_tables_first_wins(document) ==
    LET f[i \in 0..Len(document)] ==
            IF i = 0 THEN [table_id |-> None, tables |-> <<>>]
            ELSE LET a == f[i - 1]
                     node == document[i]
                 IN IF ~node.direct THEN a
                    ELSE IF node.name = "h2"
                    THEN [a EXCEPT !.table_id = node.id]
                    ELSE IF node.name = "table" /\ is_some(a.table_id)
                    THEN [a EXCEPT !.tables =
                            a.tables @@ (unwrap(a.table_id) :> scrape_table(node))]
                    ELSE a
    IN f[Len(document)].tables

\* the mutant of scrape_entity_h2_tables: only an h2 with an id moves the slug
scrape_entity_h2_tables_keeping_slug(document) ==
    LET f[i \in 0..Len(document)] ==
            IF i = 0 THEN [table_id |-> None, tables |-> <<>>]
            ELSE LET a == f[i - 1]
                     node == document[i]
                 IN IF ~node.direct THEN a
                    ELSE IF node.name = "h2"
                    THEN IF is_some(node.id) THEN [a EXCEPT !.table_id = node.id]
                         ELSE a
                    ELSE IF node.name = "table" /\ is_some(a.table_id)
                    THEN [a EXCEPT !.tables =
                            (unwrap(a.table_id) :> scrape_table(node)) @@ a.tables]
                    ELSE a
    IN f[Len(document)].tables

\* fn scrape_entity_h2_tables: the loop over the h2, table and p children of
\* div.container-fluid; tables is the HashMap, a function from slug to Table
scrape_entity_h2_tables(document) ==
    LET f[i \in 0..Len(document)] ==
            IF i = 0 THEN [table_id |-> None, tables |-> <<>>]
            ELSE LET a == f[i - 1]
                     node == document[i]
                 IN IF ~node.direct THEN a
                    ELSE IF node.name = "h2"
                    THEN [a EXCEPT !.table_id = node.id]
                    ELSE IF node.name = "table" /\ is_some(a.table_id)
                    THEN [a EXCEPT !.tables =
                            (unwrap(a.table_id) :> scrape_table(node)) @@ a.tables]
                    ELSE a
    IN f[Len(document)].tables

\* WebFetch::fetch of FakeHttpReqwest
fetch(web_client) ==
    IF is_some(web_client.error_response)
    THEN [status |-> "err", value |-> unwrap(web_client.error_response)]
    ELSE [status |-> "ok", value |-> web_client.success_response]

\* Vec::pop as the assemblers use it: the last element, if any
pop(v) == IF v = <<>> THEN None ELSE Some(v[Len(v)])

\* the value every list assembler returns when the document has no table
EmptyList == [status |-> "ok", value |-> <<>>]

Domains == {"enterprise", "mobile", "ics"}

\* the mutant of fetch_tactics: a failed fetch is read as an empty page
fetch_tactics_defaulting(tactic_type, req_client) ==
    LET fetched_response == fetch(req_client)
        document == IF fetched_response.status = "err" THEN <<>>
                    ELSE fetched_response.value
        last == pop(scrape_tables(document))
    IN IF is_some(last) THEN TacticsTable_from(unwrap(last)) ELSE EmptyList

fetch_tactics(tactic_type, req_client) ==
    LET fetched_response == fetch(req_client)
    IN IF fetched_response.status = "err" THEN fetched_response
       ELSE LET last == pop(scrape_tables(fetched_response.value))
            IN IF is_some(last) THEN TacticsTable_from(unwrap(last)) ELSE EmptyList

\* the mutant of fetch_techniques: the first table instead of the popped one
fetch_techniques_first(technique_type, web_client) ==
    LET fetched_response == fetch(web_client)
    IN IF fetched_response.status = "err" THEN fetched_response
       ELSE LET tables == scrape_tables(fetched_response.value)
            IN IF tables # <<>> THEN TechniquesTable_from(Head(tables)) ELSE EmptyList

fetch_techniques(technique_type, web_client) ==
    LET fetched_response == fetch(web_client)
    IN IF fetched_response.status = "err" THEN fetched_response
       ELSE LET last == pop(scrape_tables(fetched_response.value))
            IN IF is_some(last) THEN TechniquesTable_from(unwrap(last)) ELSE EmptyList

fetch_mitigations(mitigation_type, web_client) ==
    LET fetched_response == fetch(web_client)
    IN IF fetched_response.status = "err" THEN fetched_response
       ELSE LET last == pop(scrape_tables(fetched_response.value))
            IN IF is_some(last) THEN MitigationTable_from(unwrap(last)) ELSE EmptyList

fetch_software(web_client) ==
    LET fetched_response == fetch(web_client)
    IN IF fetched_response.status = "err" THEN fetched_response
       ELSE LET last == pop(scrape_tables(fetched_response.value))
            IN IF is_some(last) THEN SoftwareTable_from(unwrap(last)) ELSE EmptyList

fetch_groups(web_client) ==
    LET fetched_response == fetch(web_client)
    IN IF fetched_response.status = "err" THEN fetched_response
       ELSE LET last == pop(scrape_tables(fetched_response.value))
            IN IF is_some(last) THEN GroupsTable_from(unwrap(last)) ELSE EmptyList

fetch_data_sources(web_client) ==
    LET fetched_response == fetch(web_client)
    IN IF fetched_response.status = "err" THEN fetched_response
       ELSE LET last == pop(scrape_tables(fetched_response.value))
            IN IF is_some(last) THEN DataSourcesTable_from(unwrap(last)) ELSE EmptyList

(***************************************************************************)
(* Detail pages: the entity's name and description, and the tables of its  *)
(* sections.                                                               *)
(***************************************************************************)
LowerLetters == <<"a", "g", "m", "s", "t">>

UpperLetters == <<"A", "G", "M", "S", "T">>

\* str::to_uppercase, on the letters the ids are written with
to_uppercase(s) ==
    [i \in 1..Len(s) |->
        IF \E k \in 1..Len(LowerLetters) : LowerLetters[k] = s[i]
        THEN UpperLetters[CHOOSE k \in 1..Len(LowerLetters) : LowerLetters[k] = s[i]]
        ELSE s[i]]

\* fn scrape_entity_name: the trimmed texts of the text nodes of the h1
\* elements (Name("h1").child(Text)), joined by " "; an h1 without text has
\* no text node
scrape_entity_name(document) ==
    LET f[i \in 0..Len(document)] ==
            IF i = 0 THEN <<>>
            ELSE IF document[i].name = "h1" /\ ~is_empty(document[i].text)
                 THEN Append(f[i - 1], trim(document[i].text))
                 ELSE f[i - 1]
    IN join(f[Len(document)], <<" ">>)

\* fn scrape_entity_description: the texts of the text nodes of the p
\* elements of div.description-body, joined by "\n", through
\* remove_ext_link_ref; a p without text has no text node
scrape_entity_description(document) ==
    LET f[i \in 0..Len(document)] ==
            IF i = 0 THEN <<>>
            ELSE IF /\ document[i].name = "p"
                    /\ ~is_empty(document[i].text)
                    /\ document[i].within \in {"description-body", "section-view"}
                 THEN Append(f[i - 1], document[i].text)
                 ELSE f[i - 1]
    IN remove_ext_link_ref(join(f[Len(document)], <<"\n">>))

\* a table conversion that gives None for a table without rows
\* (impl From<Table> for Option<...>: if table.is_empty() { return None; })
unless_empty(t, converted) ==
    IF table_is_empty(t) THEN [status |-> "ok", value |-> None]
    ELSE IF converted.status = "ok"
    THEN [status |-> "ok", value |-> Some(converted.value)]
    ELSE converted

OptProceduresTable_from(t) == unless_empty(t, ProceduresTable_from(t))

OptMitigationTable_from(t) == unless_empty(t, MitigationTable_from(t))

OptDomainTechniquesTable_from(t) == unless_empty(t, DomainTechniquesTable_from(t))

\* groups::SoftwareTable
GroupSoftwareTable_from(t) ==
    [status |-> "ok", value |-> [i \in 1..Len(t) |-> GroupSoftwareRow_from(t[i])]]

OptGroupSoftwareTable_from(t) == unless_empty(t, GroupSoftwareTable_from(t))

OptAssocGroupsTable_from(t) == unless_empty(t, AssocGroupsTable_from(t))

\* if let Some(t) = tables.remove(slug) { t.into() } else { None }
section(tables, slug, converted) ==
    IF slug \in DOMAIN tables THEN converted
    ELSE [status |-> "ok", value |-> None]

\* the table tables.remove(slug) hands to the conversion
removed(tables, slug) == IF slug \in DOMAIN tables THEN tables[slug] ELSE <<>>

\* the record of a detail page: a panic in the conversion of one of its
\* fields unwinds out of the assembler
\* fields (record holds the result of each conversion under the names in fields)
assembled(record, fields) ==
    IF \E k \in fields : record[k].status = "panic"
    THEN [status |-> "panic", value |-> <<>>]
    ELSE [status |-> "ok",
          value |-> [k \in DOMAIN record |->
                        IF k \in fields THEN record[k].value ELSE record[k]]]

\* Some(converted), whatever the table holds
always_some(converted) ==
    IF converted.status = "ok" THEN [status |-> "ok", value |-> Some(converted.value)]
    ELSE converted

\* the mutant of Tactic::fetch_tactic: without a table, an empty list of techniques
fetch_tactic_with_empty_techniques(tactic_id, req_client) ==
    LET fetched_response == fetch(req_client)
    IN IF fetched_response.status = "err" THEN fetched_response
       ELSE LET document == fetched_response.value
                last == pop(scrape_tables(document))
                techniques == IF is_some(last)
                              THEN always_some(TechniquesTable_from(unwrap(last)))
                              ELSE [status |-> "ok", value |-> Some(<<>>)]
            IN assembled([id |-> to_uppercase(tactic_id),
                          name |-> scrape_entity_name(document),
                          description |-> scrape_entity_description(document),
                          techniques |-> techniques],
                         {"techniques"})

\* Tactic::fetch_tactic
fetch_tactic(tactic_id, req_client) ==
    LET fetched_response == fetch(req_client)
    IN IF fetched_response.status = "err" THEN fetched_response
       ELSE LET document == fetched_response.value
                last == pop(scrape_tables(document))
                techniques == IF is_some(last)
                              THEN always_some(TechniquesTable_from(unwrap(last)))
                              ELSE [status |-> "ok", value |-> None]
            IN assembled([id |-> to_uppercase(tactic_id),
                          name |-> scrape_entity_name(document),
                          description |-> scrape_entity_description(document),
                          techniques |-> techniques],
                         {"techniques"})

fetch_technique(technique_id, web_client) ==
    LET fetched_response == fetch(web_client)
    IN IF fetched_response.status = "err" THEN fetched_response
       ELSE LET document == fetched_response.value
                tables == scrape_entity_h2_tables(document)
                procedures == section(tables, "examples",
                        OptProceduresTable_from(removed(tables, "examples")))
                mitigations == section(tables, "mitigations",
                        OptMitigationTable_from(removed(tables, "mitigations")))
                detections == section(tables, "detection",
                        OptDetectionsTable_from(removed(tables, "detection")))
            IN assembled([id |-> technique_id,
                          name |-> scrape_entity_name(document),
                          description |-> scrape_entity_description(document),
                          procedures |-> procedures,
                          mitigations |-> mitigations,
                          detections |-> detections],
                         {"procedures", "mitigations", "detections"})

\* Mitigation::fetch_mitigation
fetch_mitigation(mitigation_id, web_client) ==
    LET fetched_response == fetch(web_client)
    IN IF fetched_response.status = "err" THEN fetched_response
       ELSE LET document == fetched_response.value
                tables == scrape_entity_h2_tables(document)
                addressed_techniques ==
                    section(tables, "techniques",
                        OptDomainTechniquesTable_from(removed(tables, "techniques")))
            IN assembled([id |-> mitigation_id,
                          name |-> scrape_entity_name(document),
                          desc |-> scrape_entity_description(document),
                          addressed_techniques |-> addressed_techniques],
                         {"addressed_techniques"})

\* the aliasDescription table of a group: Some(list), also of a table without rows
assoc_groups_some(t) == always_some(assoc_groups_from(t))

\* Group::fetch_group
fetch_group(group_id, web_client) ==
    LET fetched_response == fetch(web_client)
    IN IF fetched_response.status = "err" THEN fetched_response
       ELSE LET document == fetched_response.value
                tables == scrape_entity_h2_tables(document)
                techniques == section(tables, "techniques",
                        OptDomainTechniquesTable_from(removed(tables, "techniques")))
                software == section(tables, "software",
                        OptGroupSoftwareTable_from(removed(tables, "software")))
                assoc_groups == section(tables, "aliasDescription",
                        assoc_groups_some(removed(tables, "aliasDescription")))
            IN assembled([id |-> group_id,
                          name |-> scrape_entity_name(document),
                          desc |-> scrape_entity_description(document),
                          assoc_groups |-> assoc_groups,
                          techniques |-> techniques,
                          software |-> software],
                         {"techniques", "software", "assoc_groups"})

fetch_software_info(software_id, web_client) ==
    LET fetched_response == fetch(web_client)
    IN IF fetched_response.status = "err" THEN fetched_response
       ELSE LET document == fetched_response.value
                tables == scrape_entity_h2_tables(document)
                techniques == section(tables, "techniques",
                        OptDomainTechniquesTable_from(removed(tables, "techniques")))
                groups == section(tables, "groups",
                        OptAssocGroupsTable_from(removed(tables, "groups")))
            IN assembled([id |-> software_id,
                          name |-> scrape_entity_name(document),
                          desc |-> scrape_entity_description(document),
                          techniques |-> techniques,
                          groups |-> groups],
                         {"techniques", "groups"})

\* scrape_datasource_tables with name and description cloned, not taken, by
\* the table that is pushed
scrape_datasource_tables_keeping_name(document) ==
    LET f[i \in 0..Len(document)] ==
            IF i = 0 THEN [dt_tables |-> <<>>, name |-> <<>>, description |-> <<>>]
            ELSE LET a == f[i - 1]
                     node == document[i]
                 IN IF node.within # "section-view" THEN a
                    ELSE IF node.name = "a"
                    THEN IF is_some(node.id) THEN [a EXCEPT !.name = unwrap(node.id)]
                         ELSE a
                    ELSE IF node.name = "p"
                    THEN [a EXCEPT !.description = node.text]
                    ELSE IF node.name = "table"
                    THEN [a EXCEPT
                            !.dt_tables = Append(@, [name |-> a.name,
                                                     description |-> a.description,
                                                     table |-> scrape_table(node)])]
                    ELSE a
    IN f[Len(document)].dt_tables

\* fn scrape_datasource_tables: name and description are taken (left empty)
\* by each table that is pushed
scrape_datasource_tables(document) ==
    LET f[i \in 0..Len(document)] ==
            IF i = 0 THEN [dt_tables |-> <<>>, name |-> <<>>, description |-> <<>>]
            ELSE LET a == f[i - 1]
                     node == document[i]
                 IN IF node.within # "section-view" THEN a
                    ELSE IF node.name = "a"
                    THEN IF is_some(node.id) THEN [a EXCEPT !.name = unwrap(node.id)]
                         ELSE a
                    ELSE IF node.name = "p"
                    THEN [a EXCEPT !.description = node.text]
                    ELSE IF node.name = "table"
                    THEN [a EXCEPT
                            !.dt_tables = Append(@, [name |-> a.name,
                                                     description |-> a.description,
                                                     table |-> scrape_table(node)]),
                            !.name = <<>>,
                            !.description = <<>>]
                    ELSE a
    IN f[Len(document)].dt_tables

\* the components collected, unless the conversion of one of them panicked
components_of(converted) ==
    IF \E i \in DOMAIN converted : converted[i].status = "panic"
    THEN [status |-> "panic", value |-> <<>>]
    ELSE [status |-> "ok", value |-> [i \in DOMAIN converted |-> converted[i].value]]

\* fn get_data_components
get_data_components(dt_comps) ==
    components_of([i \in 1..Len(dt_comps) |->
                     assembled([name |-> dt_comps[i].name,
                                description |-> dt_comps[i].description,
                                detections |-> DsDetectionsTable_from(dt_comps[i].table)],
                               {"detections"})])

fetch_data_source(data_source_id, web_client) ==
    LET fetched_response == fetch(web_client)
    IN IF fetched_response.status = "err" THEN fetched_response
       ELSE LET document == fetched_response.value
                components == get_data_components(scrape_datasource_tables(document))
            IN assembled([id |-> data_source_id,
                          name |-> scrape_entity_name(document),
                          description |-> scrape_entity_description(document),
                          components |-> components],
                         {"components"})

(***************************************************************************)
(* The assemblers, each applied to what the web client answers: a document *)
(* of up to MaxNodes elements, or an error.                                *)
(***************************************************************************)
RawTableA ==
    << <<<<" ", "E">>, CellT, CellN, CellU>>,
       <<Blank, <<".", "2", " ">>, CellN, CellM>> >>

RawTableB == << <<CellD, <<"\n", "A">>, CellM, CellN>> >>

NodeKinds ==
    { Node("h2", Some("techniques"), TRUE, <<>>),
      Node("h2", Some("software"), TRUE, <<>>),
      Node("h2", None, TRUE, <<>>),
      Node("h2", Some("groups"), FALSE, <<>>),
      Node("p", None, TRUE, <<>>),
      Node("table", None, TRUE, RawTableA),
      Node("table", None, TRUE, RawTableB),
      Node("table", None, FALSE, RawTableB) }

Documents == SeqsUpTo(NodeKinds, MaxNodes)

Errors ==
    { [kind |-> "Request", message |-> "timed out"],
      [kind |-> "General", message |-> "status 404"] }

WebClients ==
    {[error_response |-> None, success_response |-> d, calls |-> 0] : d \in Documents}
    \cup {[error_response |-> Some(e), success_response |-> <<>>, calls |-> 0] :
             e \in Errors}

InitDoc ==
    /\ table = <<>>
    /\ row = <<>>
    /\ web \in WebClients
    /\ op = "idle"
    /\ out = NoOut
    /\ sync = NoSync
    /\ disk = NoDisk

EntityIds == {<<"t", "a", "1">>, <<"G", "1">>}

\* an assembler run to its end: it has called the web client once
Assemble(kind, result) ==
    /\ op = "idle"
    /\ op' = kind
    /\ out' = result
    /\ web' = [web EXCEPT !.calls = @ + 1]
    /\ UNCHANGED <<table, row, sync, disk>>

FetchTactics == \E d \in Domains : Assemble("fetch_tactics", fetch_tactics(d, web))

FetchTechniques == \E d \in Domains : Assemble("fetch_techniques", fetch_techniques(d, web))

FetchMitigations == \E d \in Domains : Assemble("fetch_mitigations", fetch_mitigations(d, web))

FetchSoftware == Assemble("fetch_software", fetch_software(web))

FetchGroups == Assemble("fetch_groups", fetch_groups(web))

FetchDataSources == Assemble("fetch_data_sources", fetch_data_sources(web))

FetchTactic == \E id \in EntityIds : Assemble("fetch_tactic", fetch_tactic(id, web))

FetchTechnique == \E id \in EntityIds : Assemble("fetch_technique", fetch_technique(id, web))

FetchMitigation == \E id \in EntityIds : Assemble("fetch_mitigation", fetch_mitigation(id, web))

FetchGroup == \E id \in EntityIds : Assemble("fetch_group", fetch_group(id, web))

FetchSoftwareInfo ==
    \E id \in EntityIds : Assemble("fetch_software_info", fetch_software_info(id, web))

FetchDataSource ==
    \E id \in EntityIds : Assemble("fetch_data_source", fetch_data_source(id, web))

\* the detail assemblers call scrape_entity_h2_tables on the fetched document
ScrapeEntityH2Tables ==
    /\ fetch(web).status = "ok"
    /\ Convert("scrape_entity_h2_tables",
               [status |-> "ok", value |-> scrape_entity_h2_tables(fetch(web).value)])

NextDoc ==
    \/ FetchTactics
    \/ FetchTechniques
    \/ FetchMitigations
    \/ FetchSoftware
    \/ FetchGroups
    \/ FetchDataSources
    \/ FetchTactic
    \/ FetchTechnique
    \/ FetchMitigation
    \/ FetchGroup
    \/ FetchSoftwareInfo
    \/ FetchDataSource
    \/ ScrapeEntityH2Tables

SpecDoc == InitDoc /\ [][NextDoc]_vars

(***************************************************************************)
(* What C9 and C10 speak of, read off the document by element index.       *)
(***************************************************************************)
ListOps ==
    {"fetch_tactics", "fetch_techniques", "fetch_mitigations", "fetch_software",
     "fetch_groups", "fetch_data_sources"}

TableIdx(d) == {i \in 1..Len(d) : d[i].name = "table"}

Least(S) == CHOOSE i \in S : \A j \in S : i <= j

\* the list the assembler `kind` makes of the table element at index i
ListOf(kind, d, i) ==
    LET t == scrape_table(d[i])
    IN CASE kind = "fetch_tactics" -> TacticsTable_from(t)
         [] kind = "fetch_techniques" -> TechniquesTable_from(t)
         [] kind = "fetch_mitigations" -> MitigationTable_from(t)
         [] kind = "fetch_software" -> SoftwareTable_from(t)
         [] kind = "fetch_groups" -> GroupsTable_from(t)
         [] kind = "fetch_data_sources" -> DataSourcesTable_from(t)

Fetched == op \in ListOps /\ web.error_response = None

(***************************************************************************)
(* C9 as claimed.  Every list-page assembler builds its result from the    *)
(* first table of the document in document order, also when the document   *)
(* holds two or more tables.                                               *)
(***************************************************************************)
C9_FirstTable ==
    (Fetched /\ TableIdx(web.success_response) # {}) =>
        out = ListOf(op, web.success_response, Least(TableIdx(web.success_response)))

(***************************************************************************)
(* C9 as amended.  Every list-page assembler builds its result from the    *)
(* last table of the document in document order; with exactly one table    *)
(* that is also the first.                                                 *)
(***************************************************************************)
C9_LastTable ==
    (Fetched /\ TableIdx(web.success_response) # {}) =>
        /\ out = ListOf(op, web.success_response, Nearest(TableIdx(web.success_response)))
        /\ out.status = "ok"
        /\ Len(out.value) > 0

\* a list made of the last of two different tables, not of the first
C9_Witness ==
    /\ Fetched
    /\ Len(web.success_response) >= 2
    /\ web.success_response[1].name = "table"
    /\ web.success_response[1].rows = RawTableA
    /\ web.success_response[Len(web.success_response)].rows = RawTableB
    /\ out = ListOf(op, web.success_response, Len(web.success_response))
    /\ out # ListOf(op, web.success_response, 1)

\* the h2 children of the container before element i, and those with an id
H2Before(d, i) == {j \in 1..(i - 1) : d[j].direct /\ d[j].name = "h2"}

H2WithIdBefore(d, i) == {j \in H2Before(d, i) : is_some(d[j].id)}

\* the id of the most recent h2 with an id before element i, if there is one
SlugOfLastH2WithId(d, i) ==
    IF H2WithIdBefore(d, i) = {} THEN None ELSE d[Nearest(H2WithIdBefore(d, i))].id

\* the id, if it has one, of the nearest h2 before element i
SlugOfNearestH2(d, i) ==
    IF H2Before(d, i) = {} THEN None ELSE d[Nearest(H2Before(d, i))].id

DirectTableIdx(d) == {i \in TableIdx(d) : d[i].direct}

ScrapedH2Tables == op = "scrape_entity_h2_tables"

(***************************************************************************)
(* C10 as claimed.  scrape_entity_h2_tables maps every table child of the  *)
(* container that follows an h2 with an id to the id of the most recent    *)
(* h2 with an id: an h2 without an id, or a p, between them does not       *)
(* detach the table, and tables before the first h2 with an id are not in  *)
(* the map.                                                                *)
(***************************************************************************)
C10_SlugOfMostRecentH2WithId ==
    ScrapedH2Tables =>
        LET d == web.success_response
            mapped == {i \in DirectTableIdx(d) : is_some(SlugOfLastH2WithId(d, i))}
        IN /\ DOMAIN out.value = {unwrap(SlugOfLastH2WithId(d, i)) : i \in mapped}
           /\ \A k \in DOMAIN out.value :
                \E i \in mapped : /\ unwrap(SlugOfLastH2WithId(d, i)) = k
                                  /\ out.value[k] = scrape_table(d[i])

(***************************************************************************)
(* C10 as amended.  scrape_entity_h2_tables maps every table child of the  *)
(* container to the id of the nearest h2 child before it, when that h2 has *)
(* an id: every h2 moves the current slug, an h2 without an id to none, so *)
(* the tables after an h2 without an id are in the map under no slug until *)
(* the next h2 with an id.  A p does not move the slug, and tables before  *)
(* the first h2 with an id are not in the map.                             *)
(***************************************************************************)
C10_SlugOfNearestH2 ==
    ScrapedH2Tables =>
        LET d == web.success_response
            mapped == {i \in DirectTableIdx(d) : is_some(SlugOfNearestH2(d, i))}
        IN /\ DOMAIN out.value = {unwrap(SlugOfNearestH2(d, i)) : i \in mapped}
           /\ \A k \in DOMAIN out.value :
                \E i \in mapped : /\ unwrap(SlugOfNearestH2(d, i)) = k
                                  /\ out.value[k] = scrape_table(d[i])

\* a table under the slug of its h2, and a table after an h2 without an id
\* that is under no slug
C10_Witness ==
    /\ ScrapedH2Tables
    /\ web.success_response =
          << Node("h2", Some("techniques"), TRUE, <<>>),
             Node("table", None, TRUE, RawTableA),
             Node("h2", None, TRUE, <<>>),
             Node("table", None, TRUE, RawTableB) >>
    /\ DOMAIN out.value = {"techniques"}
    /\ out.value["techniques"] =
          << <<CellE, CellT, CellN, CellU>>, <<Blank, CellDot, CellN, CellM>> >>

(***************************************************************************)
(* C11.  When the fetch through the web client fails, every list and       *)
(* detail assembler returns that same error value unchanged, makes no      *)
(* record, does not panic, and has called the web client exactly once.     *)
(***************************************************************************)
DetailOps ==
    {"fetch_tactic", "fetch_technique", "fetch_mitigation", "fetch_group",
     "fetch_software_info", "fetch_data_source"}

C11_FetchErrorIsReturned ==
    (op \in ListOps \cup DetailOps /\ is_some(web.error_response)) =>
        /\ out.status = "err"
        /\ out.value = unwrap(web.error_response)
        /\ out.value \in Errors
        /\ web.calls = 1

\* a detail assembler that has returned the error of a failed fetch
C11_Witness ==
    /\ op = "fetch_group"
    /\ web.error_response = Some([kind |-> "Request", message |-> "timed out"])
    /\ web.calls = 1
    /\ out = [status |-> "err", value |-> [kind |-> "Request", message |-> "timed out"]]

(***************************************************************************)
(* The sync commands (commands/attack.rs).  The web client answers each    *)
(* URL with its own response: web.list for the list page, web.pages[u] for *)
(* the detail page at u.  A command fetches and saves the list, then walks *)
(* it: sync.rest holds the rows still to come, sync.log what was logged    *)
(* for each entity whose detail fetch was called, disk the files written.  *)
(***************************************************************************)
MaxEntities == 2

SyncIds == {<<"t", "1">>, <<"G", "2">>}

SyncCommands ==
    {"tactics", "techniques", "mitigations", "groups", "software", "data_sources"}

DomainCommands == {"tactics", "techniques", "mitigations"}

\* str::replace of one character
replace(s, from, to) == [i \in 1..Len(s) |-> IF s[i] = from THEN to ELSE s[i]]

\* the part of the detail URL after the entity's base URL
detail_url(command, id) ==
    CASE command \in {"tactics", "data_sources"} -> to_uppercase(id)
      [] command = "techniques" -> replace(to_uppercase(id), ".", "/")
      [] OTHER -> id

\* tactics::fetch_tactics, techniques::fetch_techniques, ... of a sync command
fetch_list(command, domain, web_client) ==
    CASE command = "tactics" -> fetch_tactics(domain, web_client)
      [] command = "techniques" -> fetch_techniques(domain, web_client)
      [] command = "mitigations" -> fetch_mitigations(domain, web_client)
      [] command = "groups" -> fetch_groups(web_client)
      [] command = "software" -> fetch_software(web_client)
      [] command = "data_sources" -> fetch_data_sources(web_client)

\* tactics::fetch_tactic(&row.id, &req_client), ... of a sync command
fetch_detail(command, id, web_client) ==
    CASE command = "tactics" -> fetch_tactic(id, web_client)
      [] command = "techniques" -> fetch_technique(id, web_client)
      [] command = "mitigations" -> fetch_mitigation(id, web_client)
      [] command = "groups" -> fetch_group(id, web_client)
      [] command = "software" -> fetch_software_info(id, web_client)
      [] command = "data_sources" -> fetch_data_source(id, web_client)

(***************************************************************************)
(* serde: the types the files are written from and read into, and the JSON *)
(* serde_json makes of a value and reads back.  A JSON value is null, a    *)
(* string, an array or an object; a struct is written as an object of its  *)
(* fields, a tuple struct of one field (TacticsTable(pub Vec<TacticRow>))  *)
(* as that field, an Option as null or as its value, a unit variant of an  *)
(* enum and a path as a string.                                            *)
(***************************************************************************)
String == [t |-> "String"]

PathBuf == [t |-> "PathBuf"]

Option(T) == [t |-> "Option", of |-> T]

Vec(T) == [t |-> "Vec", of |-> T]

\* a struct: the names of its fields in the order of the declaration, and
\* the type of each
Struct(fields, types) == [t |-> "struct", fields |-> fields, types |-> types]

ProcedureType == [t |-> "enum", variants |-> {"SOFTWARE", "GROUP", "UNKNOWN"}]

\* the name of a variant as serde writes it
variant_name(variant) ==
    CASE variant = "SOFTWARE" -> <<"S", "O", "F", "T", "W", "A", "R", "E">>
      [] variant = "GROUP" -> <<"G", "R", "O", "U", "P">>
      [] variant = "UNKNOWN" -> <<"U", "N", "K", "N", "O", "W", "N">>

Named == <<"id", "name", "description">>

NamedTypes == [id |-> String, name |-> String, description |-> String]

TacticRow == Struct(Named, NamedTypes)

TacticsTable == Vec(TacticRow)

SubTechniqueRow == Struct(Named, NamedTypes)

TechniqueRow ==
    Struct(<<"id", "name", "description", "sub_techniques">>,
           [id |-> String, name |-> String, description |-> String,
            sub_techniques |-> Option(Vec(SubTechniqueRow))])

TechniquesTable == Vec(TechniqueRow)

MitigationRow == Struct(Named, NamedTypes)

MitigationTable == Vec(MitigationRow)

GroupRow ==
    Struct(<<"id", "name", "assoc_groups", "description">>,
           [id |-> String, name |-> String, assoc_groups |-> Option(Vec(String)),
            description |-> String])

GroupsTable == Vec(GroupRow)

SoftwareRow ==
    Struct(<<"id", "name", "assoc_software", "description">>,
           [id |-> String, name |-> String, assoc_software |-> Option(Vec(String)),
            description |-> String])

SoftwareTable == Vec(SoftwareRow)

DataSourceRow ==
    Struct(<<"id", "name", "domain", "description">>,
           [id |-> String, name |-> String, domain |-> String,
            description |-> String])

DataSourcesTable == Vec(DataSourceRow)

ProcedureRow ==
    Struct(<<"id", "name", "description", "procedure_type">>,
           [id |-> String, name |-> String, description |-> String,
            procedure_type |-> ProcedureType])

ProceduresTable == Vec(ProcedureRow)

\* techniques::DetectionRow
DetectionRow ==
    Struct(<<"id", "data_source", "data_comp", "detects">>,
           [id |-> String, data_source |-> String, data_comp |-> String,
            detects |-> Option(String)])

DetectionsTable == Vec(DetectionRow)

DomainSubTechniqueRow ==
    Struct(<<"id", "name", "used_for">>,
           [id |-> String, name |-> String, used_for |-> String])

DomainTechniqueRow ==
    Struct(<<"domain", "id", "name", "used_for", "sub_techniques">>,
           [domain |-> String, id |-> String, name |-> String, used_for |-> String,
            sub_techniques |-> Option(Vec(DomainSubTechniqueRow))])

DomainTechniquesTable == Vec(DomainTechniqueRow)

\* groups::SoftwareRow
GroupSoftwareRow ==
    Struct(<<"id", "name", "techniques">>,
           [id |-> String, name |-> String, techniques |-> Vec(String)])

GroupSoftwareTable == Vec(GroupSoftwareRow)

AssocGroupsRow == Struct(<<"id", "name">>, [id |-> String, name |-> String])

AssocGroupsTable == Vec(AssocGroupsRow)

SubDetectionRow ==
    Struct(<<"id", "name", "detects">>,
           [id |-> String, name |-> String, detects |-> String])

\* data_sources::DetectionRow
DsDetectionRow ==
    Struct(<<"domain", "id", "name", "detects", "sub_detections">>,
           [domain |-> String, id |-> String, name |-> String, detects |-> String,
            sub_detections |-> Option(Vec(SubDetectionRow))])

DsDetectionsTable == Vec(DsDetectionRow)

DataComponent ==
    Struct(<<"name", "description", "detections">>,
           [name |-> String, description |-> String,
            detections |-> DsDetectionsTable])

Tactic ==
    Struct(<<"id", "name", "description", "techniques">>,
           [id |-> String, name |-> String, description |-> String,
            techniques |-> Option(TechniquesTable)])

Technique ==
    Struct(<<"id", "name", "description", "procedures", "mitigations", "detections">>,
           [id |-> String, name |-> String, description |-> String,
            procedures |-> Option(ProceduresTable),
            mitigations |-> Option(MitigationTable),
            detections |-> Option(DetectionsTable)])

Mitigation ==
    Struct(<<"id", "name", "desc", "addressed_techniques">>,
           [id |-> String, name |-> String, desc |-> String,
            addressed_techniques |-> Option(DomainTechniquesTable)])

Group ==
    Struct(<<"id", "name", "desc", "assoc_groups", "techniques", "software">>,
           [id |-> String, name |-> String, desc |-> String,
            assoc_groups |-> Option(Vec(String)),
            techniques |-> Option(DomainTechniquesTable),
            software |-> Option(GroupSoftwareTable)])

Software ==
    Struct(<<"id", "name", "desc", "techniques", "groups">>,
           [id |-> String, name |-> String, desc |-> String,
            techniques |-> Option(DomainTechniquesTable),
            groups |-> Option(AssocGroupsTable)])

DataSource ==
    Struct(<<"id", "name", "description", "components">>,
           [id |-> String, name |-> String, description |-> String,
            components |-> Vec(DataComponent)])

\* the type a describe command reads and writes, and the one a list command
\* does
StructType(kind) ==
    CASE kind = "tactics" -> Tactic
      [] kind = "techniques" -> Technique
      [] kind = "mitigations" -> Mitigation
      [] kind = "groups" -> Group
      [] kind = "software" -> Software
      [] kind = "data_sources" -> DataSource

ListType(kind) ==
    CASE kind = "tactics" -> TacticsTable
      [] kind = "techniques" -> TechniquesTable
      [] kind = "mitigations" -> MitigationTable
      [] kind = "groups" -> GroupsTable
      [] kind = "software" -> SoftwareTable
      [] kind = "data_sources" -> DataSourcesTable

JsonNull == [j |-> "null", v |-> <<>>]

JsonString(s) == [j |-> "string", v |-> s]

JsonArray(elements) == [j |-> "array", v |-> elements]

JsonObject(members) == [j |-> "object", v |-> members]

\* a value with the type it is serialized as (&impl serde::Serialize)
Serialize(T, value) == [type |-> T, value |-> value]

\* serde_json::to_writer: the JSON of a value of the type T
RECURSIVE to_json(_, _)
to_json(value, T) ==
    CASE T.t \in {"String", "PathBuf"} -> JsonString(value)
      [] T.t = "enum" -> JsonString(variant_name(value))
      [] T.t = "Option" ->
            IF is_some(value) THEN to_json(unwrap(value), T.of) ELSE JsonNull
      [] T.t = "Vec" ->
            JsonArray([i \in 1..Len(value) |-> to_json(value[i], T.of)])
      [] T.t = "struct" ->
            JsonObject([k \in DOMAIN T.types |-> to_json(value[k], T.types[k])])

ParserError == [kind |-> "Parser", message |-> "json"]

Parsed(value) == [status |-> "ok", value |-> value]

NotParsed == [status |-> "err", value |-> ParserError]

\* the values collected, unless one of them did not parse
parsed_all(results) ==
    IF \E k \in DOMAIN results : results[k].status # "ok" THEN NotParsed
    ELSE Parsed([k \in DOMAIN results |-> results[k].value])

\* Deserialize for the type T from a JSON value.  An Option takes null as
\* None and any other value as Some of its type.  A struct is read from an
\* object: keys that are no field are ignored, a missing field is None when
\* it is an Option and an error otherwise; or from an array that holds its
\* fields in order, no more and no less.  A unit variant of an enum is read
\* from the string of its name, or from an object whose one key is the name
\* and whose value is null.
RECURSIVE from_json(_, _)
from_json(json, T) ==
    CASE T.t \in {"String", "PathBuf"} ->
            IF json.j = "string" THEN Parsed(json.v) ELSE NotParsed
      [] T.t = "enum" ->
            CASE json.j = "string" ->
                    IF \E x \in T.variants : variant_name(x) = json.v
                    THEN Parsed(CHOOSE x \in T.variants : variant_name(x) = json.v)
                    ELSE NotParsed
              [] json.j = "object" ->
                    IF \E x \in T.variants :
                          DOMAIN json.v = {x} /\ json.v[x].j = "null"
                    THEN Parsed(CHOOSE x \in T.variants : DOMAIN json.v = {x})
                    ELSE NotParsed
              [] OTHER -> NotParsed
      [] T.t = "Option" ->
            IF json.j = "null" THEN Parsed(None)
            ELSE parsed_all(<<from_json(json, T.of)>>)
      [] T.t = "Vec" ->
            IF json.j # "array" THEN NotParsed
            ELSE parsed_all([i \in DOMAIN json.v |-> from_json(json.v[i], T.of)])
      [] T.t = "struct" ->
            CASE json.j = "object" ->
                    parsed_all([k \in DOMAIN T.types |->
                                  IF k \in DOMAIN json.v
                                  THEN from_json(json.v[k], T.types[k])
                                  ELSE IF T.types[k].t = "Option" THEN Parsed(None)
                                  ELSE NotParsed])
              [] json.j = "array" ->
                    IF Len(json.v) # Len(T.fields) THEN NotParsed
                    ELSE parsed_all([k \in DOMAIN T.types |->
                            from_json(json.v[CHOOSE i \in DOMAIN T.fields :
                                                 T.fields[i] = k],
                                      T.types[k])])
              [] OTHER -> NotParsed

\* what the file system does with a save: the file is written, or
\* File::create fails, or a write fails and leaves a cut file.  The writer
\* is a BufWriter: the write fails inside serde_json::to_writer when the
\* JSON is longer than the buffer ("write_failed"), and in flush() when it
\* is not ("flush_failed").
SaveOutcomes == {"ok", "create_failed", "write_failed", "flush_failed"}

\* the error of a save that failed: File::create(..)? and flush()? convert
\* an io::Error, to_writer(..)? a serde_json::Error
SaveError(outcome) ==
    IF outcome = "write_failed" THEN [kind |-> "Parser", message |-> "write"]
    ELSE [kind |-> "IO", message |-> "write"]

\* a file that holds the JSON json, and one that a failed write cut short
WrittenFile(json) == [complete |-> TRUE, readable |-> TRUE, value |-> json]

CutFile == [complete |-> FALSE, readable |-> TRUE, value |-> JsonNull]

\* fn save_serde_file, on one of the two maps of the disk
save_serde_file(files, path, serde_entity, outcome) ==
    CASE outcome = "ok" ->
            [status |-> "ok", value |-> <<>>,
             files |-> (path :> WrittenFile(to_json(serde_entity.value,
                                                    serde_entity.type))) @@ files]
      [] outcome = "create_failed" ->
            [status |-> "err", value |-> SaveError(outcome), files |-> files]
      [] outcome \in {"write_failed", "flush_failed"} ->
            [status |-> "err", value |-> SaveError(outcome),
             files |-> (path :> CutFile) @@ files]

\* the directory of the list file: attack/<domain> or attack
list_directory(command, domain) == IF command \in DomainCommands THEN domain ELSE ""

\* a detail page every assembler reads, and one with a tr without td in each
\* table, on which every detail assembler panics
GoodPage ==
    << Element("h1", None, FALSE, <<>>, <<"N">>, ""),
       Node("h2", Some("techniques"), TRUE, <<>>),
       Node("table", None, TRUE, RawTableA) >>

BadPage ==
    << Node("h2", Some("techniques"), TRUE, <<>>),
       Element("table", None, TRUE, << <<>> >>, <<>>, "section-view"),
       Node("h2", Some("detection"), TRUE, <<>>),
       Element("table", None, TRUE, << <<>> >>, <<>>, "section-view") >>

\* the list page of the entities ids, one row each
ListPage(ids) ==
    << Node("table", None, TRUE, [i \in 1..Len(ids) |-> <<ids[i], CellN, CellM>>]) >>

Answer(document) == [error_response |-> None, success_response |-> document, calls |-> 0]

Failure(e) == [error_response |-> Some(e), success_response |-> <<>>, calls |-> 0]

RequestError == [kind |-> "Request", message |-> "timed out"]

PageUrls == SyncIds \cup {to_uppercase(id) : id \in SyncIds}

SyncClients ==
    {[list |-> l, pages |-> pg, calls |-> 0] :
        l \in {Answer(ListPage(ids)) : ids \in SeqsUpTo(SyncIds, MaxEntities)}
              \cup {Failure(RequestError)},
        pg \in [PageUrls -> {Answer(GoodPage), Answer(BadPage), Failure(RequestError)}]}

InitSync ==
    /\ table = <<>>
    /\ row = <<>>
    /\ web \in SyncClients
    /\ op = "idle"
    /\ out = NoOut
    /\ sync = NoSync
    /\ disk = NoDisk

\* sync_tactics, ..., sync_data_sources up to the walk of the list: what
\* follows the fetch of the list (fetched) and its save (saved), each with `?`
SyncListSaved(command, fetched, saved) ==
    /\ web' = [web EXCEPT !.calls = @ + 1]
    /\ IF fetched.status # "ok"
       THEN /\ sync' = [sync EXCEPT !.command = command,
                                    !.pc = IF fetched.status = "panic"
                                           THEN "panicked" ELSE "done",
                                    !.result = fetched]
            /\ disk' = disk
       ELSE /\ disk' = [disk EXCEPT !.lists = saved.files]
            /\ sync' = IF saved.status = "ok"
                       THEN [sync EXCEPT !.command = command,
                                         !.pc = "entities",
                                         !.rest = fetched.value]
                       ELSE [sync EXCEPT !.command = command,
                                         !.pc = "done",
                                         !.result = [status |-> "err",
                                                     value |-> saved.value]]

SyncListFetched(command, domain, fetched, outcome) ==
    SyncListSaved(command, fetched,
                  save_serde_file(disk.lists,
                                  <<list_directory(command, domain), command>>,
                                  Serialize(ListType(command), fetched.value),
                                  outcome))

SyncList ==
    /\ sync.pc = "idle"
    /\ \E command \in SyncCommands, domain \in Domains, outcome \in SaveOutcomes :
          SyncListFetched(command, domain,
                          fetch_list(command, domain, web.list), outcome)
    /\ UNCHANGED <<table, row, op, out>>

\* one turn of the iterator chain: the detail fetch of the next row r
\* (fetched), the log of its error, the save of its record (saved), the log
\* of the save's error
SyncEntitySaved(r, fetched, saved) ==
    /\ web' = [web EXCEPT !.calls = @ + 1]
    /\ CASE fetched.status = "panic" ->
              /\ sync' = [sync EXCEPT
                            !.pc = "panicked",
                            !.log = Append(@, [id |-> r.id, fetch |-> "panic",
                                               save |-> "none"]),
                            !.result = [status |-> "panic", value |-> <<>>]]
              /\ disk' = disk
         [] fetched.status = "err" ->
              /\ sync' = [sync EXCEPT
                            !.rest = Tail(@),
                            !.log = Append(@, [id |-> r.id, fetch |-> "err",
                                               save |-> "none"])]
              /\ disk' = disk
         [] fetched.status = "ok" ->
              /\ sync' = [sync EXCEPT
                            !.rest = Tail(@),
                            !.log = Append(@, [id |-> r.id, fetch |-> "ok",
                                               save |-> saved.status])]
              /\ disk' = [disk EXCEPT !.details = saved.files]

\* the save of the record as <record id>.json
SyncEntityFetched(r, fetched, outcome) ==
    SyncEntitySaved(r, fetched,
                    save_serde_file(disk.details, <<sync.command, fetched.value.id>>,
                                    Serialize(StructType(sync.command), fetched.value),
                                    outcome))

SyncEntityNext(r, outcome) ==
    SyncEntityFetched(r,
                      fetch_detail(sync.command, r.id,
                                   web.pages[detail_url(sync.command, r.id)]),
                      outcome)

SyncEntity ==
    /\ sync.pc = "entities"
    /\ sync.rest # <<>>
    /\ \E outcome \in SaveOutcomes : SyncEntityNext(Head(sync.rest), outcome)
    /\ UNCHANGED <<table, row, op, out>>

\* the end of the walk: Ok(())
SyncReturn ==
    /\ sync.pc = "entities"
    /\ sync.rest = <<>>
    /\ sync' = [sync EXCEPT !.pc = "done", !.result = [status |-> "ok", value |-> <<>>]]
    /\ UNCHANGED <<table, row, web, op, out, disk>>

NextSync ==
    \/ SyncList
    \/ SyncEntity
    \/ SyncReturn

SpecSync == InitSync /\ [][NextSync]_vars

(***************************************************************************)
(* What C12 speaks of: a command that has ended after its list was fetched *)
(* and saved, the ids of that list, and the files of the entities.         *)
(***************************************************************************)
ListSaved ==
    \E k \in DOMAIN disk.lists : k[2] = sync.command /\ disk.lists[k].complete

SyncEnded == sync.pc \in {"done", "panicked"}

SavedListIds ==
    LET k == CHOOSE k \in DOMAIN disk.lists : k[2] = sync.command
        rows == from_json(disk.lists[k].value, ListType(sync.command)).value
    IN [i \in 1..Len(rows) |-> rows[i].id]

LoggedIds == [i \in 1..Len(sync.log) |-> sync.log[i].id]

\* the id under which the record of a fetched entity is saved
SavedAs(id) == IF sync.command = "tactics" THEN to_uppercase(id) ELSE id

EveryEntityAttemptedOnce ==
    /\ LoggedIds = SavedListIds
    /\ \A k \in DOMAIN disk.details :
          \E i \in 1..Len(sync.log) : /\ k = <<sync.command, SavedAs(sync.log[i].id)>>
                                      /\ sync.log[i].fetch = "ok"
    /\ \A i \in 1..Len(sync.log) :
          (sync.log[i].fetch = "ok" /\ sync.log[i].save = "ok") =>
              <<sync.command, SavedAs(sync.log[i].id)>> \in DOMAIN disk.details

(***************************************************************************)
(* C12.  In every sync command, once the list has been fetched and saved,  *)
(* the detail fetch is attempted once for every entity of the list, in     *)
(* list order, whatever happened to the entities before it: a failed fetch *)
(* or save skips only that entity, files are written for the entities      *)
(* whose fetch succeeded and for no other, and the command returns success. *)
(***************************************************************************)
C12_EveryEntityIsAttempted ==
    (SyncEnded /\ ListSaved) =>
        /\ sync.pc = "done"
        /\ sync.result.status = "ok"
        /\ EveryEntityAttemptedOnce

\* C12 on the runs in which no detail page makes its assembler panic
C12_EveryEntityIsAttemptedWhenNoPagePanics ==
    (sync.pc = "done" /\ ListSaved) =>
        /\ sync.result.status = "ok"
        /\ EveryEntityAttemptedOnce

(***************************************************************************)
(* The detail assemblers that read named sections, each applied to a       *)
(* detail page: the name and description of the entity, or neither, and    *)
(* up to MaxSections sections, each an h2 with its slug and a table.       *)
(***************************************************************************)
MaxSections == 2

SectionSlugs ==
    {"examples", "mitigations", "detection", "techniques", "software",
     "aliasDescription", "groups"}

\* a table whose only tr has no td, and a table without any tr
RawTableEmptyRow == << <<>> >>

RawTableNoRows == <<>>

SectionTables == {RawTableA, RawTableB, RawTableEmptyRow, RawTableNoRows}

Sections ==
    {<< Node("h2", Some(slug), TRUE, <<>>), Node("table", None, TRUE, rows) >> :
        slug \in SectionSlugs, rows \in SectionTables}

PageHeader ==
    << Element("h1", None, FALSE, <<>>, <<" ", "N">>, ""),
       Element("p", None, FALSE, <<>>, CellU, "description-body") >>

\* the elements of the sections ss one after the other
Flatten(ss) == [i \in 1..(2 * Len(ss)) |-> ss[(i + 1) \div 2][2 - (i % 2)]]

DetailPages ==
    {header \o Flatten(ss) : header \in {<<>>, PageHeader},
                             ss \in SeqsUpTo(Sections, MaxSections)}

InitDetail ==
    /\ table = <<>>
    /\ row = <<>>
    /\ web \in {Answer(d) : d \in DetailPages} \cup {Failure(RequestError)}
    /\ op = "idle"
    /\ out = NoOut
    /\ sync = NoSync
    /\ disk = NoDisk

NextDetail ==
    \/ FetchTactic
    \/ FetchTechnique
    \/ FetchMitigation
    \/ FetchGroup
    \/ FetchSoftwareInfo

SpecDetail == InitDetail /\ [][NextDetail]_vars

(***************************************************************************)
(* What C13 speaks of: the sections each assembler reads with the field    *)
(* each fills, and the table of a slug in the page.                        *)
(***************************************************************************)
SectionOps == {"fetch_technique", "fetch_mitigation", "fetch_group", "fetch_software_info"}

\* <<slug, field>> pairs
SectionFields(kind) ==
    CASE kind = "fetch_technique" ->
            {<<"examples", "procedures">>, <<"mitigations", "mitigations">>,
             <<"detection", "detections">>}
      [] kind = "fetch_mitigation" -> {<<"techniques", "addressed_techniques">>}
      [] kind = "fetch_group" ->
            {<<"techniques", "techniques">>, <<"software", "software">>,
             <<"aliasDescription", "assoc_groups">>}
      [] kind = "fetch_software_info" ->
            {<<"techniques", "techniques">>, <<"groups", "groups">>}

HeadingIdx(d, slug) == {i \in 1..Len(d) : d[i].name = "h2" /\ d[i].id = Some(slug)}

\* the rows, as written, of the table of the last section with this slug
SectionRows(d, slug) == d[Nearest(HeadingIdx(d, slug)) + 1].rows

SectionsAreRead ==
    \A sf \in SectionFields(op) :
        LET d == web.success_response
        IN /\ HeadingIdx(d, sf[1]) = {} => out.value[sf[2]] = None
           /\ (HeadingIdx(d, sf[1]) # {} /\ Len(SectionRows(d, sf[1])) >= 1) =>
                 /\ is_some(out.value[sf[2]])
                 /\ Len(unwrap(out.value[sf[2]])) >= 1

(***************************************************************************)
(* C13.  For every detail assembler that reads named sections, a slug that *)
(* does not occur in the document leaves its field absent, the sections    *)
(* that occur with at least one row are populated, and the assembler       *)
(* returns a successful record.                                            *)
(***************************************************************************)
C13_SectionsPresentOrAbsent ==
    (op \in SectionOps /\ web.error_response = None) =>
        /\ out.status = "ok"
        /\ SectionsAreRead

\* C13 on the pages on which the assembler does not panic
C13_SectionsPresentOrAbsentWhenNoPanic ==
    (op \in SectionOps /\ out.status = "ok") => SectionsAreRead

(***************************************************************************)
(* C14.  In the output of every grouping conversion the children field of  *)
(* a parent is absent exactly when no row with an empty first column       *)
(* follows the parent's row before the next parent row; the field is never *)
(* present with an empty list.                                             *)
(***************************************************************************)
ChildField(kind, p) ==
    IF kind = "DsDetectionsTable" THEN p.sub_detections ELSE p.sub_techniques

C14_ChildrenAbsentOrNonEmpty ==
    Converted =>
        \A k \in 1..Len(out.value) :
            LET i == NthParent(table, k)
                field == ChildField(op, out.value[k])
            IN /\ (field = None) <=> (SegEnd(table, k) = i)
               /\ is_some(field) => Len(unwrap(field)) >= 1

\* a parent without children followed by a parent with one
C14_Witness ==
    /\ Converted
    /\ Len(table) = 3
    /\ Len(out.value) = 2
    /\ ChildField(op, out.value[1]) = None
    /\ is_some(ChildField(op, out.value[2]))
    /\ Len(unwrap(ChildField(op, out.value[2]))) = 1

(***************************************************************************)
(* remove_ext_link_ref applied to texts.                                   *)
(***************************************************************************)
MaxLen == 6

TextChars == {"[", "]", "1", "a", " ", "\n"}

Texts == UNION {[1..n -> TextChars] : n \in 0..MaxLen}

\* the text is held as the only column of row
InitText ==
    /\ row \in {<<text>> : text \in Texts}
    /\ table = <<>>
    /\ web = NoWeb
    /\ op = "idle"
    /\ out = NoOut
    /\ sync = NoSync
    /\ disk = NoDisk

RemoveExtLinkRef == MapRow("remove_ext_link_ref", remove_ext_link_ref(row[1]))

NextText == RemoveExtLinkRef

SpecText == InitText /\ [][NextText]_vars

(***************************************************************************)
(* C15.  remove_ext_link_ref returns its input with every occurrence of    *)
(* "[", one or more ASCII digits, "]" removed and the remaining            *)
(* whitespace-delimited tokens joined by exactly one space: no leading,    *)
(* trailing or doubled whitespace.  It never fails, and the empty string   *)
(* gives the empty string.                                                 *)
(***************************************************************************)
\* the positions of s inside an occurrence of "[" digits "]"
InReference(s) ==
    {i \in 1..Len(s) :
        \E a \in 1..i, b \in i..Len(s) :
            /\ s[a] = "["
            /\ s[b] = "]"
            /\ b > a + 1
            /\ \A j \in (a + 1)..(b - 1) : s[j] \in Digits}

\* s without the positions in gone
Without(s, gone) ==
    LET f[i \in 0..Len(s)] ==
            IF i = 0 THEN <<>>
            ELSE IF i \in gone THEN f[i - 1]
            ELSE Append(f[i - 1], s[i])
    IN f[Len(s)]

\* the maximal runs of non-whitespace characters of s, as <<first, last>>
Runs(s) ==
    {p \in (1..Len(s)) \X (1..Len(s)) :
        /\ p[1] <= p[2]
        /\ \A j \in p[1]..p[2] : s[j] \notin Whitespace
        /\ p[1] = 1 \/ s[p[1] - 1] \in Whitespace
        /\ p[2] = Len(s) \/ s[p[2] + 1] \in Whitespace}

NthRun(s, m) ==
    LET p == CHOOSE q \in Runs(s) :
                 Cardinality({r \in Runs(s) : r[1] <= q[1]}) = m
    IN SubSeq(s, p[1], p[2])

SingleSpaced(s) ==
    \A i \in 1..Len(s) :
        s[i] \in Whitespace =>
            /\ s[i] = " "
            /\ 1 < i
            /\ i < Len(s)
            /\ s[i - 1] \notin Whitespace

C15_ReferencesRemovedSingleSpaced ==
    op = "remove_ext_link_ref" =>
        LET text == row[1]
            rest == Without(text, InReference(text))
        IN /\ out.status = "ok"
           /\ SingleSpaced(out.value)
           /\ Cardinality(Runs(out.value)) = Cardinality(Runs(rest))
           /\ \A m \in 1..Cardinality(Runs(rest)) :
                  NthRun(out.value, m) = NthRun(rest, m)
           /\ text = <<>> => out.value = <<>>

\* a reference after a line break: the two tokens end up one space apart
C15_Witness ==
    /\ op = "remove_ext_link_ref"
    /\ row[1] = <<"a", "\n", "[", "1", "]", "a">>
    /\ out.value = <<"a", " ", "a">>

(***************************************************************************)
(* C16.  When the fetched document contains no table, every list-page      *)
(* assembler returns a successful empty list, never an error, and          *)
(* Tactic::fetch_tactic returns a successful record whose techniques are   *)
(* absent.                                                                 *)
(***************************************************************************)
FetchedNoTable ==
    /\ web.calls = 1
    /\ web.error_response = None
    /\ TableIdx(web.success_response) = {}

C16_NoTableGivesEmpty ==
    /\ (op \in ListOps /\ FetchedNoTable) => out = EmptyList
    /\ (op = "fetch_tactic" /\ FetchedNoTable) =>
           /\ out.status = "ok"
           /\ out.value.techniques = None
           /\ out.value.name = scrape_entity_name(web.success_response)
           /\ out.value.description = scrape_entity_description(web.success_response)

\* a tactic page of headings only
C16_Witness ==
    /\ op = "fetch_tactic"
    /\ FetchedNoTable
    /\ Len(web.success_response) = 2
    /\ out.status = "ok"
    /\ out.value.id = <<"T", "A", "1">>
    /\ out.value.techniques = None

(***************************************************************************)
(* C17.  When two tables of a document are associated with the same        *)
(* section slug (the same h2 id occurs twice, or two tables follow one     *)
(* heading), the map returned by scrape_entity_h2_tables holds one entry   *)
(* for that slug, and it is the table that comes later in document order.  *)
(* A table is associated with the id of the nearest h2 child before it.    *)
(***************************************************************************)
TablesOfSlug(d, k) == {i \in DirectTableIdx(d) : SlugOfNearestH2(d, i) = Some(k)}

C17_LaterTableWins ==
    ScrapedH2Tables =>
        LET d == web.success_response
        IN \A i \in DirectTableIdx(d), j \in DirectTableIdx(d) :
              (i < j /\ is_some(SlugOfNearestH2(d, i))
                     /\ SlugOfNearestH2(d, i) = SlugOfNearestH2(d, j)) =>
                  LET k == unwrap(SlugOfNearestH2(d, i))
                  IN /\ k \in DOMAIN out.value
                     /\ out.value[k] = scrape_table(d[Nearest(TablesOfSlug(d, k))])
                     /\ Nearest(TablesOfSlug(d, k)) >= j

\* the same h2 id twice, each with its own table: the second table is kept
C17_Witness ==
    /\ ScrapedH2Tables
    /\ web.success_response =
          << Node("h2", Some("techniques"), TRUE, <<>>),
             Node("table", None, TRUE, RawTableA),
             Node("h2", Some("techniques"), TRUE, <<>>),
             Node("table", None, TRUE, RawTableB) >>
    /\ DOMAIN out.value = {"techniques"}
    /\ out.value["techniques"] = scrape_table(Node("table", None, TRUE, RawTableB))
    /\ out.value["techniques"] # scrape_table(Node("table", None, TRUE, RawTableA))

(***************************************************************************)
(* scrape_table applied to table elements: table holds the tr elements of  *)
(* the body, each the texts of its td cells.                               *)
(***************************************************************************)
MaxTds == 2

RawCells == { <<" ", "a", " ", "b", "\n">>, <<"\t">> }

RawRows == SeqsUpTo(RawCells, MaxTds)

InitTable ==
    /\ table \in SeqsUpTo(RawRows, MaxRows)
    /\ row = <<>>
    /\ web = NoWeb
    /\ op = "idle"
    /\ out = NoOut
    /\ sync = NoSync
    /\ disk = NoDisk

ScrapeTable ==
    Convert("scrape_table",
            [status |-> "ok", value |-> scrape_table(Node("table", None, TRUE, table))])

NextTable == ScrapeTable

SpecTable == InitTable /\ [][NextTable]_vars

(***************************************************************************)
(* C18.  scrape_table returns exactly one Row per tr element of the        *)
(* table's body, in document order; each Row holds the individually        *)
(* trimmed text of that tr's td cells from left to right; a tr without a   *)
(* td cell yields an empty Row that is kept in the sequence.               *)
(***************************************************************************)
\* t is raw without its leading and its trailing whitespace
IsTrimmed(t, raw) ==
    /\ t # <<>> => (t[1] \notin Whitespace /\ t[Len(t)] \notin Whitespace)
    /\ \E lo \in 0..Len(raw) :
          /\ lo + Len(t) <= Len(raw)
          /\ \A i \in 1..Len(raw) :
                IF lo < i /\ i <= lo + Len(t) THEN t[i - lo] = raw[i]
                ELSE raw[i] \in Whitespace

C18_OneRowPerTr ==
    op = "scrape_table" =>
        /\ out.status = "ok"
        /\ Len(out.value) = Len(table)
        /\ \A i \in 1..Len(table) :
              /\ Len(out.value[i]) = Len(table[i])
              /\ \A j \in 1..Len(table[i]) : IsTrimmed(out.value[i][j], table[i][j])

\* a tr without td between two tr with cells
C18_Witness ==
    /\ op = "scrape_table"
    /\ table = << <<<<" ", "a", " ", "b", "\n">>, <<"\t">>>>,
                  <<>>,
                  <<<<"\t">>, <<" ", "a", " ", "b", "\n">>>> >>
    /\ out.value = << <<<<"a", " ", "b">>, <<>>>>,
                      <<>>,
                      <<<<>>, <<"a", " ", "b">>>> >>

(***************************************************************************)
(* The flat list conversions, applied to the tables of Init.               *)
(***************************************************************************)
ToTacticsTable == Convert("TacticsTable", TacticsTable_from(table))

ToMitigationTable == Convert("MitigationTable", MitigationTable_from(table))

ToGroupsTable == Convert("GroupsTable", GroupsTable_from(table))

ToSoftwareTable == Convert("SoftwareTable", SoftwareTable_from(table))

ToDataSourcesTable == Convert("DataSourcesTable", DataSourcesTable_from(table))

ToProceduresTable == Convert("ProceduresTable", ProceduresTable_from(table))

ToAssocGroupsTable == Convert("AssocGroupsTable", AssocGroupsTable_from(table))

NextFlat ==
    \/ ToTacticsTable
    \/ ToMitigationTable
    \/ ToGroupsTable
    \/ ToSoftwareTable
    \/ ToDataSourcesTable
    \/ ToProceduresTable
    \/ ToAssocGroupsTable

SpecFlat == Init /\ [][NextFlat]_vars

(***************************************************************************)
(* C19.  Each flat list conversion (Table -> TacticsTable, MitigationTable,*)
(* GroupsTable, SoftwareTable, DataSourcesTable, ProceduresTable,          *)
(* AssocGroupsTable) yields exactly one record per body row, in row order, *)
(* with id, name and the remaining fields taken from that row's own        *)
(* columns at the kind's fixed positions.                                  *)
(***************************************************************************)
FlatOps ==
    {"TacticsTable", "MitigationTable", "GroupsTable", "SoftwareTable",
     "DataSourcesTable", "ProceduresTable", "AssocGroupsTable"}

\* the column of r at position n, the empty string when r is shorter
ColumnOr(r, n) == IF n < Len(r) THEN r[n + 1] ELSE <<>>

DescriptionColumn(kind) ==
    IF kind \in {"GroupsTable", "SoftwareTable", "DataSourcesTable"} THEN 3 ELSE 2

RecordOfOwnRow(kind, record, r) ==
    /\ record.id = ColumnOr(r, 0)
    /\ record.name = ColumnOr(r, 1)
    /\ kind \notin {"AssocGroupsTable", "ProceduresTable"} =>
          record.description =
              trim_lines_if_multiline(ColumnOr(r, DescriptionColumn(kind)))
    /\ kind = "ProceduresTable" =>
          /\ record.description = procedure_text(ColumnOr(r, 2))
          /\ record.procedure_type = ProcedureType_from(ColumnOr(r, 0))
    /\ kind = "DataSourcesTable" =>
          record.domain = trim_lines_if_multiline(ColumnOr(r, 2))
    /\ kind = "GroupsTable" =>
          record.assoc_groups =
              IF Len(r) > 2 THEN Some(split_on(r[3], <<",">>)) ELSE None
    /\ kind = "SoftwareTable" =>
          record.assoc_software =
              IF Len(r) > 2 THEN Some(split_on(r[3], <<",", " ">>)) ELSE None

C19_OneRecordPerRow ==
    op \in FlatOps =>
        /\ out.status = "ok"
        /\ Len(out.value) = Len(table)
        /\ \A k \in 1..Len(table) : RecordOfOwnRow(op, out.value[k], table[k])

\* three different rows, one of them without any column, as three groups
C19_Witness ==
    /\ op = "GroupsTable"
    /\ table = << <<CellE, CellT, CellN, CellM, CellU>>, <<>>, <<Blank, CellT>> >>
    /\ Len(out.value) = 3
    /\ out.value[1].id = CellE
    /\ out.value[1].description = trim_lines_if_multiline(CellM)
    /\ out.value[2].id = <<>>
    /\ out.value[2].assoc_groups = None
    /\ out.value[3].name = CellT

(***************************************************************************)
(* C20.  Applying the grouping to the rows that were grouped as the        *)
(* children of one parent (a sequence in which every row has an empty      *)
(* first column) returns that same sequence unchanged as a flat list: no   *)
(* row is lost and no further level of nesting is produced.                *)
(***************************************************************************)
OnlyChildRows(t) == Len(t) > 0 /\ \A i \in 1..Len(t) : IsChildRow(t[i])

C20_ChildrenListUnchanged ==
    (op \in GroupingOps /\ OnlyChildRows(table)) =>
        /\ out.status = "ok"
        /\ Len(out.value) = Len(table)
        /\ \A k \in 1..Len(table) :
              /\ ChildField(op, out.value[k]) = None
              /\ out.value[k].name = ColumnOr(table[k], 1)

\* What the code does with such a sequence: every row is added to the
\* detached default parent, and the list that is returned is empty.
C20_ChildrenListIsDropped ==
    (op \in GroupingOps /\ OnlyChildRows(table)) => out = EmptyList

(***************************************************************************)
(* The read-through cache of the describe and list commands                *)
(* (commands/attack.rs, lib.rs).  A file is at the path <<directory, name>> *)
(* and holds the JSON serde_json wrote of a value: a file that was cut by a *)
(* failed write does not parse, and the JSON of a value of another type    *)
(* parses when it has the fields the type that is read cannot do without.  *)
(***************************************************************************)
PathNotFound == [kind |-> "PathNotFound", message |-> "path"]

ReadError == [kind |-> "IO", message |-> "read"]

\* serde_json::from_str into the type S: a file that was cut is no JSON
from_str(file, S) ==
    IF ~file.complete THEN NotParsed ELSE from_json(file.value, S)

\* fn load_json_file
load_json_file(files, path, S) ==
    IF path \notin DOMAIN files THEN [status |-> "err", value |-> PathNotFound]
    ELSE IF ~files[path].readable THEN [status |-> "err", value |-> ReadError]
    ELSE from_str(files[path], S)

\* what a command returns and leaves: its result, the files, the number of
\* calls of the web client
Returned(status, value, files, fetches) ==
    [status |-> status, value |-> value, files |-> files, fetches |-> fetches]

\* the value the describe command of `kind` hands to save_serde_file: the
\* fetched record, but in handle_data_source_cmd the directory path
saved_by_describe(kind, fetched_entity) ==
    IF kind = "data_sources" THEN Serialize(PathBuf, <<"attack", "data_sources">>)
    ELSE Serialize(StructType(kind), fetched_entity)

\* handle_tactic_cmd, ..., handle_data_source_cmd after the save
describe_saved(fetched, saved) ==
    IF saved.status = "ok" THEN Returned("ok", fetched.value, saved.files, 1)
    ELSE Returned("err", saved.value, saved.files, 1)

\* the handler creating the file before it knows the fetch succeeded
describe_fetched_creating_first(kind, id, files, fetched, outcome) ==
    IF fetched.status # "ok"
    THEN Returned(fetched.status, fetched.value,
                  save_serde_file(files, <<kind, id>>, Serialize(String, <<>>),
                                  "flush_failed").files, 1)
    ELSE describe_saved(fetched,
                        save_serde_file(files, <<kind, id>>,
                                        saved_by_describe(kind, fetched.value),
                                        outcome))

\* ... after the fetch: fetch_x(id, &req_client)? and save_serde_file(..)?
describe_fetched(kind, id, files, fetched, outcome) ==
    IF fetched.status # "ok" THEN Returned(fetched.status, fetched.value, files, 1)
    ELSE describe_saved(fetched,
                        save_serde_file(files, <<kind, id>>,
                                        saved_by_describe(kind, fetched.value),
                                        outcome))

\* the match with every load error leading to the fetch
describe_loaded_refetching(kind, id, files, loaded, web_client, outcome) ==
    IF loaded.status = "ok" THEN Returned("ok", loaded.value, files, 0)
    ELSE describe_fetched(kind, id, files, fetch_detail(kind, id, web_client), outcome)

\* ... after load_json_file: only PathNotFound leads to the fetch
describe_loaded(kind, id, files, loaded, web_client, outcome) ==
    IF loaded.status = "ok" THEN Returned("ok", loaded.value, files, 0)
    ELSE IF loaded.value.kind # "PathNotFound"
    THEN Returned("err", loaded.value, files, 0)
    ELSE describe_fetched(kind, id, files, fetch_detail(kind, id, web_client), outcome)

\* AttackDescribeCommand::handle_tactic_cmd and the five like it, up to the
\* output of the record
describe(kind, id, files, web_client, outcome) ==
    describe_loaded(kind, id, files,
                    load_json_file(files, <<kind, id>>, StructType(kind)),
                    web_client, outcome)

\* AttackListCommand::handle_list_tactics and the five like it
list_saved(fetched, saved) ==
    IF saved.status = "ok" THEN Returned("ok", fetched.value, saved.files, 1)
    ELSE Returned("err", saved.value, saved.files, 1)

list_fetched(kind, domain, files, fetched, outcome) ==
    IF fetched.status # "ok" THEN Returned(fetched.status, fetched.value, files, 1)
    ELSE list_saved(fetched,
                    save_serde_file(files, <<list_directory(kind, domain), kind>>,
                                    Serialize(ListType(kind), fetched.value),
                                    outcome))

list_loaded(kind, domain, files, loaded, web_client, outcome) ==
    IF loaded.status = "ok" THEN Returned("ok", loaded.value, files, 0)
    ELSE IF loaded.value.kind # "PathNotFound"
    THEN Returned("err", loaded.value, files, 0)
    ELSE list_fetched(kind, domain, files, fetch_list(kind, domain, web_client), outcome)

list(kind, domain, files, web_client, outcome) ==
    list_loaded(kind, domain, files,
                load_json_file(files, <<list_directory(kind, domain), kind>>,
                               ListType(kind)),
                web_client, outcome)

(***************************************************************************)
(* A describe or a list command on a cache with at most one file, and the  *)
(* same command once more.  sync.log keeps what each run returned and the  *)
(* files it found.                                                         *)
(***************************************************************************)
CacheIds == SyncIds

CacheClients ==
    {[list |-> l, pages |-> [u \in PageUrls |-> a], calls |-> 0] :
        l \in {Answer(ListPage(<<id>>)) : id \in CacheIds} \cup {Failure(RequestError)},
        a \in {Answer(GoodPage), Answer(BadPage), Failure(RequestError)}}

\* a file as an earlier run left it, a file cut by a failed write, a file
\* that cannot be read, and a file that holds the JSON of another type
StoredFiles(json, foreign) ==
    { WrittenFile(json), CutFile, [CutFile EXCEPT !.readable = FALSE],
      WrittenFile(foreign) }

\* the kind whose files stand in for those of `kind`
ForeignKind(kind) ==
    CASE kind = "tactics" -> "data_sources"
      [] kind = "techniques" -> "tactics"
      [] kind = "mitigations" -> "groups"
      [] kind = "groups" -> "software"
      [] kind = "software" -> "mitigations"
      [] kind = "data_sources" -> "techniques"

\* the JSON of the record of the good page, and of the list of one row
DetailJson(kind, id) ==
    to_json(fetch_detail(kind, id, Answer(GoodPage)).value, StructType(kind))

ListJson(kind, domain, id) ==
    to_json(fetch_list(kind, domain, Answer(ListPage(<<id>>))).value, ListType(kind))

ListPaths ==
    {<<list_directory(kind, domain), kind>> : kind \in SyncCommands, domain \in Domains}

\* the JSON of a technique whose one procedure has its type written as an
\* object, {"GROUP": null}: a form the program does not write and reads
TaggedJson(id) ==
    JsonObject([id |-> JsonString(id), name |-> JsonString(<<"N">>),
                description |-> JsonString(<<>>),
                procedures |-> JsonArray(<<JsonObject(
                    [id |-> JsonString(<<"G", "2">>), name |-> JsonString(<<"N">>),
                     description |-> JsonString(<<>>),
                     procedure_type |-> JsonObject([GROUP |-> JsonNull])])>>)])

\* the disks with one detail file, and those with one list file
DetailDisks(kind, id) ==
    {[lists |-> <<>>, details |-> (<<kind, id>> :> file)] :
        file \in StoredFiles(DetailJson(kind, id), DetailJson(ForeignKind(kind), id))
                 \cup (IF kind = "techniques" THEN {WrittenFile(TaggedJson(id))}
                       ELSE {})}

ListDisks(kind, domain, id) ==
    {[lists |-> (<<list_directory(kind, domain), kind>> :> file), details |-> <<>>] :
        file \in StoredFiles(ListJson(kind, domain, id),
                             ListJson(ForeignKind(kind), domain, id))}

CacheDisks ==
    {NoDisk}
    \cup UNION {DetailDisks(kind, id) : kind \in SyncCommands, id \in CacheIds}
    \cup UNION {ListDisks(kind, domain, id) :
                   kind \in SyncCommands, domain \in Domains, id \in CacheIds}

InitCache ==
    /\ table = <<>>
    /\ row = <<>>
    /\ web \in CacheClients
    /\ op = "idle"
    /\ out = NoOut
    /\ sync = NoSync
    /\ disk \in CacheDisks

\* the run of a command: its result in out and in the log, the files it left
Ran(command, kind, arg, before, returned, pc) ==
    /\ op' = command
    /\ out' = [status |-> returned.status, value |-> returned.value]
    /\ web' = [web EXCEPT !.calls = @ + returned.fetches]
    /\ disk' = IF command = "describe" THEN [disk EXCEPT !.details = returned.files]
               ELSE [disk EXCEPT !.lists = returned.files]
    /\ sync' = [sync EXCEPT
                  !.pc = pc,
                  !.command = kind,
                  !.log = Append(@, [command |-> command, kind |-> kind, arg |-> arg,
                                     before |-> before, after |-> returned.files,
                                     status |-> returned.status,
                                     value |-> returned.value,
                                     fetches |-> returned.fetches])]
    /\ UNCHANGED <<table, row>>

Described(kind, id, outcome, pc) ==
    Ran("describe", kind, id, disk.details,
        describe(kind, id, disk.details, web.pages[detail_url(kind, id)], outcome), pc)

Listed(kind, domain, outcome, pc) ==
    Ran("list", kind, domain, disk.lists,
        list(kind, domain, disk.lists, web.list, outcome), pc)

DescribeCommand ==
    /\ sync.pc = "idle"
    /\ \E kind \in SyncCommands, id \in CacheIds, outcome \in SaveOutcomes :
          Described(kind, id, outcome, "first")

ListCommand ==
    /\ sync.pc = "idle"
    /\ \E kind \in SyncCommands, domain \in Domains, outcome \in SaveOutcomes :
          Listed(kind, domain, outcome, "first")

DescribeAgain ==
    /\ sync.pc = "first"
    /\ op = "describe"
    /\ \E outcome \in SaveOutcomes :
          Described(sync.log[1].kind, sync.log[1].arg, outcome, "second")

ListAgain ==
    /\ sync.pc = "first"
    /\ op = "list"
    /\ \E outcome \in SaveOutcomes :
          Listed(sync.log[1].kind, sync.log[1].arg, outcome, "second")

NextCache ==
    \/ DescribeCommand
    \/ ListCommand
    \/ DescribeAgain
    \/ ListAgain

SpecCache == InitCache /\ [][NextCache]_vars

(***************************************************************************)
(* What C21, C22 and C23 speak of: the first run of a command and the run  *)
(* of the same command that follows it.                                    *)
(***************************************************************************)
FirstRun == sync.log[1]

SecondRun == sync.log[2]

\* the first run missed the cache, fetched, saved and returned the record
FetchedAndStored(run) ==
    /\ run.command = "describe"
    /\ run.status = "ok"
    /\ run.fetches = 1

\* C21: for every entity kind, after a describe that missed the cache and
\* fetched the record, the describe of the same id that follows succeeds,
\* calls the web client not once, and returns the same record.
C21_SecondDescribeServedFromCache ==
    (sync.pc = "second" /\ FetchedAndStored(FirstRun))
        => /\ SecondRun.status = "ok"
           /\ SecondRun.fetches = 0
           /\ SecondRun.value = FirstRun.value

\* the same of the five kinds whose handler saves the fetched record
C21_SecondDescribeServedFromCacheButDataSources ==
    (sync.pc = "second" /\ FetchedAndStored(FirstRun) /\ FirstRun.kind # "data_sources")
        => /\ SecondRun.status = "ok"
           /\ SecondRun.fetches = 0
           /\ SecondRun.value = FirstRun.value

\* the cache file a run asks for, and the struct it is parsed into
CachePath(run) ==
    IF run.command = "describe" THEN <<run.kind, run.arg>>
    ELSE <<list_directory(run.kind, run.arg), run.kind>>

CacheType(run) ==
    IF run.command = "describe" THEN StructType(run.kind) ELSE ListType(run.kind)

Cached(run) == CachePath(run) \in DOMAIN run.before

CacheFile(run) == run.before[CachePath(run)]

Parses(file, S) ==
    /\ file.readable
    /\ file.complete
    /\ from_json(file.value, S).status = "ok"

\* the record read from the file of a run
FileRecord(run) == from_json(CacheFile(run).value, CacheType(run)).value

ServedFromFile(run) ==
    /\ run.status = "ok"
    /\ run.value = FileRecord(run)
    /\ run.fetches = 0
    /\ run.after = run.before

FailedOnFile(run) ==
    /\ run.status = "err"
    /\ run.value = IF CacheFile(run).readable THEN ParserError ELSE ReadError
    /\ run.fetches = 0
    /\ run.after = run.before

\* C22: in every describe and list command the web client is called only when
\* the cache file asked for does not exist; a file that exists and parses is
\* what the command returns, without a fetch; a file that exists and cannot
\* be read or parsed makes the command return that error, without a fetch
\* and with the file left as it was.
C22_FetchOnlyWhenFileIsMissing ==
    \A i \in 1..Len(sync.log) :
        /\ sync.log[i].fetches > 0 => ~Cached(sync.log[i])
        /\ Cached(sync.log[i]) =>
              IF Parses(CacheFile(sync.log[i]), CacheType(sync.log[i]))
              THEN ServedFromFile(sync.log[i])
              ELSE FailedOnFile(sync.log[i])

\* a describe found a file cut short, with a web client that would have
\* answered the page: the Parser error is returned and nothing was fetched
C22_Witness ==
    /\ sync.pc = "first"
    /\ FirstRun.command = "describe"
    /\ Cached(FirstRun)
    /\ CacheFile(FirstRun).readable
    /\ ~CacheFile(FirstRun).complete
    /\ web.pages[detail_url(FirstRun.kind, FirstRun.arg)] = Answer(GoodPage)
    /\ out = [status |-> "err", value |-> ParserError]
    /\ web.calls = 0
    /\ disk.details = FirstRun.before

\* what the web client answers to the request of a run
WebAnswer(run) ==
    IF run.command = "describe" THEN web.pages[detail_url(run.kind, run.arg)]
    ELSE web.list

\* C23: a describe or list command that misses the cache and whose fetch
\* fails returns the error of the fetch and leaves the cache files exactly
\* as they were.
C23_FailedFetchLeavesFiles ==
    \A i \in 1..Len(sync.log) :
        (~Cached(sync.log[i]) /\ is_some(WebAnswer(sync.log[i]).error_response))
            => /\ sync.log[i].status = "err"
               /\ sync.log[i].value = unwrap(WebAnswer(sync.log[i]).error_response)
               /\ sync.log[i].after = sync.log[i].before

\* a describe of an id without file, on a disk that holds the file of
\* another id, met a failing web client; the command was then run again
C23_Witness ==
    /\ sync.pc = "second"
    /\ FirstRun.command = "describe"
    /\ ~Cached(FirstRun)
    /\ FirstRun.before # <<>>
    /\ FirstRun.fetches = 1
    /\ SecondRun.fetches = 1
    /\ web.calls = 2
    /\ out = [status |-> "err", value |-> RequestError]
    /\ disk.details = FirstRun.before

(***************************************************************************)
(* A sync command that returned Ok(()), followed by one describe or list   *)
(* command of the same kind.  The run of that command is the last entry of *)
(* sync.log, after the entries of the entities the sync walked.            *)
(***************************************************************************)
SyncCompleted == sync.pc = "done" /\ sync.result.status = "ok"

DescribeAfterSync ==
    /\ SyncCompleted
    /\ \E id \in PageUrls, outcome \in SaveOutcomes :
          Described(sync.command, id, outcome, "after")

ListAfterSync ==
    /\ SyncCompleted
    /\ \E domain \in Domains, outcome \in SaveOutcomes :
          Listed(sync.command, domain, outcome, "after")

NextAfterSync ==
    \/ SyncList
    \/ SyncEntity
    \/ SyncReturn
    \/ DescribeAfterSync
    \/ ListAfterSync

SpecAfterSync == InitSync /\ [][NextAfterSync]_vars

\* the run after the sync, and the entries the sync logged
RunAfterSync == sync.log[Len(sync.log)]

SyncLog == SubSeq(sync.log, 1, Len(sync.log) - 1)

\* the list file the sync wrote
SyncedListPath == CHOOSE k \in DOMAIN RunAfterSync.before : k[2] = sync.command

\* the sync fetched and saved the record now asked for, at its i-th entity
SyncedAt(i) ==
    /\ SavedAs(SyncLog[i].id) = RunAfterSync.arg
    /\ SyncLog[i].fetch = "ok"
    /\ SyncLog[i].save = "ok"

ServedAfterSync(run) ==
    /\ run.status = "ok"
    /\ run.fetches = 0
    /\ run.value = FileRecord(run)
    /\ to_json(run.value, CacheType(run)) = CacheFile(run).value
    /\ run.after = run.before

\* C25: after a sync command has returned Ok, the list command of its kind
\* and domain, and the describe command of every entity whose detail fetch
\* and save succeeded during the sync, return what the sync wrote without a
\* call of the web client.
C25_ServedAfterSync ==
    sync.pc = "after" =>
        /\ (RunAfterSync.command = "list" /\ CachePath(RunAfterSync) = SyncedListPath)
              => ServedAfterSync(RunAfterSync)
        /\ (RunAfterSync.command = "describe" /\ \E i \in 1..Len(SyncLog) : SyncedAt(i))
              => ServedAfterSync(RunAfterSync)

\* What the code does: the describe is served from the file when no later
\* save of the same file failed in the write, which cuts the file the
\* earlier save had written.
C25_ServedAfterSyncWhenLastWriteSucceeded ==
    sync.pc = "after" =>
        /\ (RunAfterSync.command = "list" /\ CachePath(RunAfterSync) = SyncedListPath)
              => ServedAfterSync(RunAfterSync)
        /\ (/\ RunAfterSync.command = "describe"
            /\ \E i \in 1..Len(SyncLog) :
                  /\ SyncedAt(i)
                  /\ \A j \in (i + 1)..Len(SyncLog) :
                        SavedAs(SyncLog[j].id) = RunAfterSync.arg
                            => SyncLog[j].fetch # "ok" \/ SyncLog[j].save = "ok")
              => ServedAfterSync(RunAfterSync)

(***************************************************************************)
(* The search commands (commands/attack.rs, AttackSearchCommand): the list *)
(* of the kind is fetched and searched, no file is read or written.        *)
(***************************************************************************)
\* Error::InvalidValue
InvalidValue(message) == [kind |-> "InvalidValue", message |-> message]

\* str::eq_ignore_ascii_case, on the letters the ids are written with
eq_ignore_ascii_case(a, b) == to_uppercase(a) = to_uppercase(b)

\* Iterator::find(|row| row.<key>.eq_ignore_ascii_case(value))
find(rows, key, value) ==
    LET hits == {i \in 1..Len(rows) : eq_ignore_ascii_case(rows[i][key], value)}
    IN IF hits = {} THEN None ELSE Some(rows[Least(hits)])

\* Iterator::find(|row| row.<key>.ends_with(suffix))
find_ending(rows, key, suffix) ==
    LET hits == {i \in 1..Len(rows) : ends_with(rows[i][key], suffix)}
    IN IF hits = {} THEN None ELSE Some(rows[Least(hits)])

\* Some(x) => x, None => return Err(InvalidValue(..))
found_or(found, message) ==
    IF is_some(found) THEN [status |-> "ok", value |-> unwrap(found)]
    ELSE [status |-> "err", value |-> InvalidValue(message)]

\* handle_tactic_search, ..., handle_data_source_search after the fetch:
\* match id { Some(_id) => find by id, None => match name { .. } }
entity_found(id, name, rows) ==
    IF is_some(id) THEN found_or(find(rows, "id", unwrap(id)), "no entity with id")
    ELSE found_or(find(rows, "name", unwrap(name)), "no entity with name")

\* AttackSearchCommand::find_technique
find_technique(key, value, fetched_techniques) ==
    found_or(find(fetched_techniques, key, value), "no technique")

\* handle_sub_technique after find_technique: the second piece of the value
\* is looked for at the end of the key of the sub-techniques
sub_technique_of(key, value, separator, technique_found) ==
    IF technique_found.status # "ok" THEN technique_found
    ELSE IF ~is_some(technique_found.value.sub_techniques)
    THEN [status |-> "err", value |-> InvalidValue("no sub technique")]
    ELSE found_or(find_ending(unwrap(technique_found.value.sub_techniques), key,
                              split_on(value, <<separator>>)[2]),
                  "no sub technique")

\* AttackSearchCommand::handle_sub_technique
handle_sub_technique(key, value, separator, fetched_techniques) ==
    sub_technique_of(key, value, separator,
                     find_technique(key, value, fetched_techniques))

\* handle_technique_search after the fetch
technique_found(id, name, rows) ==
    IF is_some(id)
    THEN IF contains(unwrap(id), ".")
         THEN handle_sub_technique("id", unwrap(id), ".", rows)
         ELSE find_technique("id", unwrap(id), rows)
    ELSE IF contains(unwrap(name), ":")
         THEN handle_sub_technique("name", unwrap(name), ":", rows)
         ELSE find_technique("name", unwrap(name), rows)

\* the result of a search whose list was fetched
search_found(found, files) == Returned(found.status, found.value, files, 1)

search_fetched(kind, id, name, files, fetched) ==
    IF fetched.status # "ok" THEN Returned(fetched.status, fetched.value, files, 1)
    ELSE IF kind = "techniques"
    THEN search_found(technique_found(id, name, fetched.value), files)
    ELSE search_found(entity_found(id, name, fetched.value), files)

\* AttackSearchCommand::handle_tactic_search and the five like it
search(kind, id, name, domain, files, web_client) ==
    IF ~is_some(id) /\ ~is_some(name)
    THEN Returned("err", InvalidValue("neither id or name provided"), files, 0)
    ELSE search_fetched(kind, id, name, files, fetch_list(kind, domain, web_client))

(***************************************************************************)
(* A search command on a list page of up to MaxEntities rows: techniques   *)
(* in either case, a row of a sub-technique, and a row whose own id and    *)
(* name hold the separators.                                               *)
(***************************************************************************)
SearchRows ==
    { <<CellT, <<"A">>, CellM>>,
      <<<<"t", "1">>, <<"a">>, CellN>>,
      <<<<"G", "2">>, <<"m">>, CellM>>,
      <<Blank, <<".", "1">>, <<"s">>, CellN>>,
      <<<<"T", "1", ".", "1">>, <<"A", ":", "s">>, CellM>> }

SearchClients ==
    {[list |-> l, pages |-> <<>>, calls |-> 0] :
        l \in {Answer(<<Node("table", None, TRUE, rows)>>) :
                  rows \in SeqsUpTo(SearchRows, MaxEntities)}
              \cup {Failure(RequestError)}}

SearchIds ==
    {None, Some(CellT), Some(<<"t", "1">>), Some(<<"T", "1", ".", "1">>),
     Some(<<"G", "2", ".", "1">>)}

SearchNames ==
    {None, Some(<<"a">>), Some(<<"m">>), Some(<<"A", ":", "s">>),
     Some(<<"A", ":", " ", "s">>)}

InitSearch ==
    /\ table = <<>>
    /\ row = <<>>
    /\ web \in SearchClients
    /\ op = "idle"
    /\ out = NoOut
    /\ sync = NoSync
    /\ disk = NoDisk

Searched(kind, id, name, domain) ==
    Ran("search", kind, [id |-> id, name |-> name, domain |-> domain], disk.lists,
        search(kind, id, name, domain, disk.lists, web.list), "searched")

\* handle_tactic_search, handle_mitigation_search, handle_software_search,
\* handle_groups_search, handle_data_source_search
SearchEntity ==
    /\ sync.pc = "idle"
    /\ \E kind \in SyncCommands \ {"techniques"}, id \in SearchIds,
          name \in SearchNames, domain \in Domains :
          Searched(kind, id, name, domain)

\* handle_technique_search
SearchTechnique ==
    /\ sync.pc = "idle"
    /\ \E id \in SearchIds, name \in SearchNames, domain \in Domains :
          Searched("techniques", id, name, domain)

NextSearch ==
    \/ SearchEntity
    \/ SearchTechnique

SpecSearch == InitSearch /\ [][NextSearch]_vars

\* the search that ran, and the list its fetch returned
TheSearch == sync.log[1]

SearchedList == fetch_list(TheSearch.kind, TheSearch.arg.domain, web.list)

\* the value looked for, and the field it is compared with
SearchKey == IF is_some(TheSearch.arg.id) THEN "id" ELSE "name"

SearchValue == unwrap(TheSearch.arg[SearchKey])

\* the sub-technique s of the technique p carries the id looked for, or the
\* name looked for, written <parent name>:<child name>
IsSubTechniqueLookedFor(p, s) ==
    IF SearchKey = "id" THEN s.id = SearchValue
    ELSE /\ Len(split_on(SearchValue, <<":">>)) = 2
         /\ split_on(SearchValue, <<":">>)[1] = p.name
         /\ s.name = p.name \o <<":", " ">> \o split_on(SearchValue, <<":">>)[2]

SubTechniquesLookedFor ==
    {s \in UNION {{unwrap(SearchedList.value[i].sub_techniques)[j] :
                      j \in 1..Len(unwrap(SearchedList.value[i].sub_techniques))} :
                   i \in {i \in 1..Len(SearchedList.value) :
                             is_some(SearchedList.value[i].sub_techniques)}} :
        \E i \in 1..Len(SearchedList.value) :
            /\ is_some(SearchedList.value[i].sub_techniques)
            /\ \E j \in 1..Len(unwrap(SearchedList.value[i].sub_techniques)) :
                  /\ unwrap(SearchedList.value[i].sub_techniques)[j] = s
                  /\ IsSubTechniqueLookedFor(SearchedList.value[i], s)}

SubTechniqueSearch ==
    /\ sync.pc = "searched"
    /\ TheSearch.kind = "techniques"
    /\ is_some(TheSearch.arg.id) \/ is_some(TheSearch.arg.name)
    /\ contains(SearchValue, IF SearchKey = "id" THEN "." ELSE ":")
    /\ SearchedList.status = "ok"

\* C24: the search of a technique by the id <parent id>.<suffix> or the name
\* <parent name>:<child name> of a sub-technique returns the record of that
\* sub-technique whenever the fetched list holds the parent with it.
C24_SubTechniqueIsFound ==
    (SubTechniqueSearch /\ SubTechniquesLookedFor # {})
        => /\ out.status = "ok"
           /\ out.value \in SubTechniquesLookedFor

\* the records of a fetched list in list order: its rows, each technique
\* followed by its sub-techniques
RecordsOf(kind, rows) ==
    LET f[i \in 0..Len(rows)] ==
            IF i = 0 THEN <<>>
            ELSE IF kind = "techniques" /\ is_some(rows[i].sub_techniques)
            THEN f[i - 1] \o <<rows[i]>> \o unwrap(rows[i].sub_techniques)
            ELSE Append(f[i - 1], rows[i])
    IN f[Len(rows)]

\* the first of the records whose id is the id looked for, whatever the case
\* of its letters, or the InvalidValue error when there is none
FirstWithId(records, id) ==
    LET hits == {i \in 1..Len(records) : to_uppercase(records[i].id) = to_uppercase(id)}
    IN IF hits = {} THEN out.status = "err" /\ out.value.kind = "InvalidValue"
       ELSE out.status = "ok" /\ out.value = records[Least(hits)]

NothingToSearchFor ==
    (~is_some(TheSearch.arg.id) /\ ~is_some(TheSearch.arg.name))
        => /\ out.status = "err"
           /\ out.value.kind = "InvalidValue"
           /\ web.calls = 0

\* C26: every search command given neither id nor name returns an
\* InvalidValue error without a call of the web client; given an id it
\* returns the first record of the fetched list whose id is that id, whatever
\* the case of the letters and whatever the name given, or an InvalidValue
\* error when the list has no such record.
C26_SearchById ==
    sync.pc = "searched" =>
        /\ NothingToSearchFor
        /\ (is_some(TheSearch.arg.id) /\ SearchedList.status = "ok")
              => FirstWithId(RecordsOf(TheSearch.kind, SearchedList.value),
                             unwrap(TheSearch.arg.id))

\* the same of the rows of the list, but for the search of a technique by an
\* id with a "."
C26_SearchByIdWithoutDot ==
    sync.pc = "searched" =>
        /\ NothingToSearchFor
        /\ (/\ is_some(TheSearch.arg.id)
            /\ SearchedList.status = "ok"
            /\ ~(TheSearch.kind = "techniques" /\ contains(unwrap(TheSearch.arg.id), ".")))
              => FirstWithId(SearchedList.value, unwrap(TheSearch.arg.id))

(***************************************************************************)
(* What C27 speaks of: the optional tables and lists of a detail record.   *)
(***************************************************************************)
OptionalFields(kind) ==
    CASE kind = "fetch_tactic" -> {"techniques"}
      [] kind = "fetch_technique" -> {"procedures", "mitigations", "detections"}
      [] kind = "fetch_mitigation" -> {"addressed_techniques"}
      [] kind = "fetch_group" -> {"techniques", "software", "assoc_groups"}
      [] kind = "fetch_software_info" -> {"techniques", "groups"}
      [] OTHER -> {}

\* C27: in every detail record an assembler returns, each optional table or
\* list is absent or holds at least one entry; a section or table without
\* body rows leaves the field absent.
C27_OptionalFieldsAbsentOrNonEmpty ==
    out.status = "ok" =>
        \A field \in OptionalFields(op) :
            out.value[field] = None \/ Len(unwrap(out.value[field])) >= 1

\* the same of the fields filled by a conversion into an Option: all but the
\* techniques of a tactic and the associated groups of a group
C27_ConvertedFieldsAbsentOrNonEmpty ==
    (out.status = "ok" /\ op # "fetch_tactic") =>
        \A field \in OptionalFields(op) \ {"assoc_groups"} :
            out.value[field] = None \/ Len(unwrap(out.value[field])) >= 1

(***************************************************************************)
(* fetch_data_source on a page of up to MaxNodes elements: anchors with    *)
(* and without id, description paragraphs and tables inside the            *)
(* section-view container, and an anchor and a table outside of it.        *)
(***************************************************************************)
ComponentNodes ==
    { Element("a", Some(<<"s">>), FALSE, <<>>, <<>>, "section-view"),
      Element("a", Some(<<"m">>), FALSE, <<>>, <<>>, "section-view"),
      Element("a", None, FALSE, <<>>, <<>>, "section-view"),
      Element("p", None, FALSE, <<>>, <<" ", "u">>, "section-view"),
      Element("table", None, FALSE, RawTableA, <<>>, "section-view"),
      Element("table", None, FALSE, RawTableB, <<>>, "section-view"),
      Element("a", Some(<<"g">>), FALSE, <<>>, <<>>, ""),
      Element("table", None, FALSE, RawTableB, <<>>, "") }

InitComponents ==
    /\ table = <<>>
    /\ row = <<>>
    /\ web \in {Answer(d) : d \in SeqsUpTo(ComponentNodes, MaxNodes)}
    /\ op = "idle"
    /\ out = NoOut
    /\ sync = NoSync
    /\ disk = NoDisk

NextComponents == FetchDataSource

SpecComponents == InitComponents /\ [][NextComponents]_vars

\* the elements of the page the scraper selects, by index
Selected(d, name) == {i \in 1..Len(d) : d[i].name = name /\ d[i].within = "section-view"}

\* the index of the k-th selected table, and of the one before it (0 if none)
NthTable(d, k) ==
    CHOOSE i \in Selected(d, "table") :
        Cardinality({j \in Selected(d, "table") : j <= i}) = k

TableBefore(d, i) ==
    IF {j \in Selected(d, "table") : j < i} = {} THEN 0
    ELSE Nearest({j \in Selected(d, "table") : j < i})

\* the anchors with an id, and the paragraphs, since the table before i
AnchorsOf(d, i) ==
    {j \in Selected(d, "a") : TableBefore(d, i) < j /\ j < i /\ is_some(d[j].id)}

ParagraphsOf(d, i) == {j \in Selected(d, "p") : TableBefore(d, i) < j /\ j < i}

ComponentOfTable(d, i) ==
    [name |-> IF AnchorsOf(d, i) = {} THEN <<>> ELSE unwrap(d[Nearest(AnchorsOf(d, i))].id),
     description |-> IF ParagraphsOf(d, i) = {} THEN <<>>
                     ELSE d[Nearest(ParagraphsOf(d, i))].text,
     detections |-> DsDetectionsTable_from(scrape_table(d[i])).value]

\* C28: fetch_data_source returns one component for each table.table inside
\* div.section-view, in document order; the name of a component is the id of
\* the last anchor, and its description the text of the last description
\* paragraph, between the table before it and its own table, and is empty
\* when there is none.
C28_OneComponentPerTable ==
    (op = "fetch_data_source" /\ out.status = "ok") =>
        /\ Len(out.value.components) = Cardinality(Selected(web.success_response, "table"))
        /\ \A k \in 1..Len(out.value.components) :
              out.value.components[k]
                  = ComponentOfTable(web.success_response, NthTable(web.success_response, k))

\* an anchor, a paragraph and two tables: the second component has neither
\* the name nor the description of the first
C28_Witness ==
    /\ op = "fetch_data_source"
    /\ out.status = "ok"
    /\ Len(web.success_response) = 4
    /\ Len(out.value.components) = 2
    /\ out.value.components[1].name = <<"s">>
    /\ out.value.components[1].description = <<" ", "u">>
    /\ out.value.components[2].name = <<>>
    /\ out.value.components[2].description = <<>>

(***************************************************************************)
(* C29.  In the conversion of the detection table of a technique the two   *)
(* sticky columns are carried one without the other: a row with a          *)
(* non-blank id and a blank data source has its own id and the data source *)
(* of the nearest earlier row that names one, and a row at or before which *)
(* a sticky column was never non-blank has the empty string in it.         *)
(***************************************************************************)
C29_StickyColumnsIndependent ==
    (op = "OptDetectionsTable" /\ out.status = "ok" /\ Len(table) > 0) =>
        \A i \in 1..Len(table) :
            /\ (cols(table[i], 0) # <<>> /\ cols(table[i], 1) = <<>>) =>
                  /\ unwrap(out.value)[i].id = cols(table[i], 0)
                  /\ unwrap(out.value)[i].data_source =
                        IF NonBlankUpTo(table, i, 1) = {} THEN <<>>
                        ELSE cols(table[Nearest(NonBlankUpTo(table, i, 1))], 1)
            /\ NonBlankUpTo(table, i, 0) = {} => unwrap(out.value)[i].id = <<>>
            /\ NonBlankUpTo(table, i, 1) = {} => unwrap(out.value)[i].data_source = <<>>

\* a row blank in both columns, a row with an id and a data source, and a
\* row with another id and no data source
C29_Witness ==
    /\ op = "OptDetectionsTable"
    /\ out.status = "ok"
    /\ Len(table) = 3
    /\ cols(table[1], 0) = <<>> /\ cols(table[1], 1) = <<>>
    /\ cols(table[2], 0) = CellT /\ cols(table[2], 1) = CellA
    /\ cols(table[3], 0) = CellD /\ cols(table[3], 1) = <<>>
    /\ unwrap(out.value)[1].id = <<>>
    /\ unwrap(out.value)[1].data_source = <<>>
    /\ unwrap(out.value)[3].id = CellD
    /\ unwrap(out.value)[3].data_source = CellA

(***************************************************************************)
(* C30.  remove_ext_link_ref is idempotent: applied to its own output it   *)
(* returns that output unchanged, so the output holds no "[", digits, "]"  *)
(* marker, nested brackets such as "[[1]2]" included.                      *)
(***************************************************************************)
C30_Idempotent ==
    (op = "remove_ext_link_ref" /\ out.status = "ok") =>
        /\ remove_ext_link_ref(out.value) = out.value
        /\ replace_all_refs(out.value) = out.value

====
